---- MODULE Spec2Model ----
(***************************************************************************)
(* Model of the extraction orchestration engine of url-to-email-hunter:    *)
(* EmailExtractor.extract_from_urls (the batch scheduler with its          *)
(* semaphore, pause loop and stop check), EmailExtractor.extract_from_url  *)
(* (the per-URL attempt loop) and the control calls pause/resume/stop.     *)
(*                                                                         *)
(* The tasks are asyncio coroutines: code between two awaits runs          *)
(* atomically.  An action below runs from a point where the task reads     *)
(* shared state (paused, stopped, the semaphore) through the awaits that   *)
(* follow, up to the next such read; the awaits in between touch only the  *)
(* task's own page, so a control call that arrives during them is the same *)
(* as one that arrives just before the action's closing read.  The page    *)
(* renderer is an external collaborator; each of its calls returns one of  *)
(* its possible outcomes, chosen with \E.                                  *)
(***************************************************************************)
EXTENDS Integers, Sequences, FiniteSets, Bags, TLC

\* ---- bounds of the model ------------------------------------------------
NumUrls == 3            \* length of the urls list given to extract_from_urls
MaxConcurrency == 2     \* value read from MAX_CONCURRENCY
MaxTotal == 50          \* longest urls list of the progress accounting alone
NumProxies == 3         \* length of FreeProxyManager.FREE_PROXIES (11 in the code)
MaxIndex == 4           \* get_next_proxy calls followed (current_index grows)
MaxChunks == 2          \* candidates in a text given to the filter pipeline
MaxStarts == 2          \* 'start' actions followed on one connection

\* ---- program constants --------------------------------------------------
MaxAttempts == 2        \* extract_from_url(..., max_attempts: int = 2)

Urls == 1..NumUrls
Emails == {"e1"}        \* addresses the filter pipeline finds on the pages

NoError == "none"
UserStopped == "user_stopped"       \* '用户停止'
NavTimeout == "timeout"             \* '访问超时'
BotChallenge == "captcha"           \* '网站启用了反爬虫验证 ...'
RendererError == "exception"        \* str(e) of any other exception
NoContext == "no_context"           \* '浏览器上下文不存在'

NoResult == [kind |-> "none"]
Skipped == [kind |-> "skipped"]

\* FREE_PROXIES = [{"server": ...}, ...]; a server address is its rank
FREE_PROXIES == [i \in 1..NumProxies |-> [server |-> i]]
\* what mark_proxy_failed may be given: any address, 0 is one outside the pool
ServerAddresses == 0..NumProxies
NotCalled == [kind |-> "not_called"]    \* no selection call has returned yet
NoProxy == [kind |-> "None"]            \* a selection call returned None

VARIABLES
    use_proxy_fallback, \* EmailExtractor.use_proxy_fallback
    paused,             \* EmailExtractor.paused
    stopped,            \* EmailExtractor.stopped
    sem,                \* free permits of the asyncio.Semaphore
    pc,                 \* position of each process_url task
    attempt,            \* loop variable of extract_from_url, per task
    current_context,    \* context the invocation navigates through
    emails,             \* local set `emails` of extract_from_url, per task
    nav,                \* outcome of the task's latest primary page.goto
    extract_failed,     \* _extract_from_page caught an exception in this call
    result,             \* dict returned by extract_from_url, per task
    all_emails,         \* shared set all_emails
    failed_urls,        \* shared list failed_urls, as the bag of its entries
    no_email_urls,      \* shared list no_email_urls, as the bag of its entries
    completed_count,    \* shared counter completed_count
    progress,           \* sequence of values sent as 'progress' events
    batch,              \* position of extract_from_urls itself
    summary,            \* dict returned by extract_from_urls
    dispatched_at_stop, \* URLs handed to extract_from_url when stop() ran
    total,              \* total = len(urls)
    _pages,             \* EmailExtractor._pages, as the tasks whose page it holds
    events,             \* batch-end events sent to the client, in order
    url,                \* argument url of extract_from_url (English step alone)
    page_timeout,       \* int(os.getenv("PAGE_TIMEOUT", "60000"))
    english_url,        \* value returned by _find_english_link
    visited_urls,       \* local set visited_urls of extract_from_url
    english_timeout,    \* timeout of the latest English page.goto, 0 if none
    hops,               \* English page.goto calls of the attempt so far
    hop_pc,             \* position of the attempt in its English step
    use_proxy,          \* FreeProxyManager.use_proxy
    failed_proxies,     \* FreeProxyManager.failed_proxies
    current_index,      \* FreeProxyManager.current_index
    proxy,              \* value returned by the latest selection call
    healed,             \* the latest pool call logged '所有代理都已失败'
    context,            \* EmailExtractor.context
    browser,            \* EmailExtractor.browser
    playwright_instance, \* EmailExtractor.playwright_instance
    pages_to_close,     \* local list pages_to_close of close()
    close_pc,           \* position of close()
    close_log,          \* warnings logged by close(): step and cause
    text,               \* argument text of _extract_emails_from_text
    domain,             \* argument domain of _extract_emails_from_text
    returned,           \* sets returned by the calls made so far, in order
    active_extractors,  \* active_extractors[session_id] of main.py, 0 if absent
    active_tasks,       \* active_tasks[session_id] of main.py, 0 if absent
    created,            \* extractors constructed for the session so far
    ws_pc,              \* position of websocket_endpoint
    task_pc,            \* position of each run_extraction task
    cleanup_pc,         \* position of the cleanup_extractor call of each caller
    cleanup_ext,        \* its argument extractor
    cleanup_wait        \* the task it awaits

vars == <<use_proxy_fallback, paused, stopped, sem, pc, attempt,
          current_context, emails, nav, extract_failed, result, all_emails, failed_urls,
          no_email_urls, completed_count, progress, batch, summary,
          dispatched_at_stop, total, _pages, events,
          url, page_timeout, english_url, visited_urls, english_timeout,
          hops, hop_pc, use_proxy, failed_proxies, current_index, proxy,
          healed, context, browser, playwright_instance, pages_to_close,
          close_pc, close_log, text, domain, returned,
          active_extractors, active_tasks, created, ws_pc, task_pc,
          cleanup_pc, cleanup_ext, cleanup_wait>>

hopVars == <<url, page_timeout, english_url, visited_urls, english_timeout,
             hops, hop_pc>>
poolVars == <<use_proxy, failed_proxies, current_index, proxy, healed>>
closeVars == <<context, browser, playwright_instance, pages_to_close,
               close_pc, close_log>>
filterVars == <<text, domain, returned>>
registryVars == <<active_extractors, active_tasks, created, ws_pc, task_pc,
                  cleanup_pc, cleanup_ext, cleanup_wait>>

\* what no step of the batch writes: its configuration and the state of the
\* parts modelled on their own below
cfgVars == <<use_proxy_fallback, total, hopVars, poolVars, closeVars,
             filterVars, registryVars>>
outVars == <<batch, summary, events>>

ctlVars == <<paused, stopped, dispatched_at_stop>>
aggVars == <<all_emails, failed_urls, no_email_urls, completed_count, progress>>
locVars == <<attempt, current_context, emails, nav, extract_failed>>

\* ---- helpers --------------------------------------------------------------

\* tasks whose URL has been handed to extract_from_url
Dispatched(w) == pc[w] \in {"nav", "english", "hopfailed"}
                 \/ (pc[w] = "done" /\ result[w] # Skipped)

\* tasks inside `async with sem`
InSem(w) == pc[w] \in {"gate", "log", "nav", "english", "hopfailed"}

\* mutant: the semaphore hands out permits it does not have
CanAcquireAlways(s) == TRUE

\* asyncio.Semaphore.acquire returns only while a permit is free
CanAcquire(s) == s > 0

\* while self.paused and not self.stopped: await asyncio.sleep(0.5)
PauseLoopBlocks(p, s) == p /\ ~s

\* mutant: process_url without its stop check
SkipsUrlNever(s) == FALSE

\* if self.stopped: return      (process_url, after the pause loop)
SkipsUrl(s) == s

\* mutant: the attempt loop without its stop check
AttemptStopsNever(s) == FALSE

\* if self.stopped: return {... 'error': '用户停止'}   (head of an attempt)
AttemptStops(s) == s

\* mutant: every returned dict reports success
MakeResultAlwaysOk(ems, ok, err) ==
    [kind |-> "result", emails |-> ems, count |-> Cardinality(ems),
     success |-> TRUE, error |-> NoError]

\* mutant: a returned dict that carries error_message whatever success is
MakeResultKeepsError(ems, ok, err) ==
    [kind |-> "result", emails |-> ems, count |-> Cardinality(ems),
     success |-> ok, error |-> err]

\* the dict built at the end of extract_from_url and at its early returns
MakeResult(ems, ok, err) ==
    [kind |-> "result", emails |-> ems, count |-> Cardinality(ems),
     success |-> ok, error |-> IF ok THEN NoError ELSE err]

\* ---- int(completed_count / total * 100) in binary64 ------------------------
\* completed_count / total is the quotient rounded to 53 significant bits,
\* the product by 100 is rounded again and int() drops the fraction.  When
\* 100 * c / n is not a whole number the two roundings (relative error
\* 2^-53 each) cannot carry the product over a whole number, for the totals
\* of the model; when it is the whole number k, the result is k - 1 exactly
\* when the quotient was rounded down and the product of the rounded
\* quotient by 100 lies more than half a unit in the last place under k.

RECURSIVE Pow2(_)
Pow2(e) == IF e = 0 THEN 1 ELSE 2 * Pow2(e - 1)

\* 2^e modulo m
RECURSIVE Pow2Mod(_, _)
Pow2Mod(e, m) == IF e = 0 THEN 1 % m ELSE (2 * Pow2Mod(e - 1, m)) % m

\* the b >= 0 with 2^-b <= c/n < 2^(1-b), for 0 < c <= n: the quotient is
\* rounded to a multiple of 2^-(52+b)
RECURSIVE Binade(_, _)
Binade(c, n) == IF n <= c THEN 0 ELSE 1 + Binade(2 * c, n)

\* the largest j with 2^j < k, for k >= 1: the doubles just under k are
\* 2^(j-52) apart
RECURSIVE BelowExp(_)
BelowExp(k) == IF k <= 1 THEN -1 ELSE 1 + BelowExp((k + 1) \div 2)

\* remainder of c * 2^(52+b) by n: what the rounding of the quotient drops
\* (n times the dropped fraction of the last place)
QuotientRemainder(c, n) == (c * Pow2Mod(52 + Binade(c, n), n)) % n

\* the product fl(c/n) * 100 is rounded to a double under the whole number k
\* = 100c/n: the quotient was rounded down (by R/n of its last place,
\* R < n/2, never a tie for these n) and 100 * R / (n * 2^(52+b)) is more
\* than half of 2^(j-52); a tie goes to k, whose significand is even
ProductBelow(c, n, k) ==
    LET R == QuotientRemainder(c, n)
    IN /\ R # 0
       /\ 2 * R < n
       /\ 400 * R > n * Pow2(BelowExp(k) + Binade(c, n) + 1)

\* int(c / n * 100)
TruncatedPercent(c, n) ==
    LET k == (c * 100) \div n
    IN IF c > 0 /\ (c * 100) % n = 0 /\ ProductBelow(c, n, k) THEN k - 1 ELSE k

\* the values of int(c / n * 100) for the totals of the model, computed once
PercentTable ==
    [n \in 1..MaxTotal |-> [c \in 0..n |-> TruncatedPercent(c, n)]]

\* int(completed_count / total * 100)
ProgressValue(c, n) == PercentTable[n][c]

\* mutant: a challenge check that never returns the bot-challenge failure
ChallengeCheckNeverFails(is_captcha, fallback, att) ==
    IF ~is_captcha THEN "continue" ELSE "swallowed"

\* what the challenge check does with a loaded page
\*   "continue": no indicator, go on to the extraction
\*   "swallowed": raise Exception("CAPTCHA_DETECTED_RETRY_WITH_PROXY") inside
\*                the try whose `except Exception` only logs, so the code
\*                goes on to the extraction as well
\*   "fail":     return the bot-challenge failure
ChallengeCheck(is_captcha, fallback, att) ==
    IF ~is_captcha THEN "continue"
    ELSE IF fallback /\ att = 0 THEN "swallowed"
    ELSE "fail"

\* mutant: an attempt loop without an end
IsLastAttemptNever(att) == FALSE

\* is_last_attempt = (attempt == max_attempts - 1)
IsLastAttempt(att) == att = MaxAttempts - 1

\* ---- initial state -------------------------------------------------------

None == <<>>            \* Python's None (and the empty string: both falsy)

\* the English step of an attempt, not entered
HopIdle ==
    /\ url = None
    /\ page_timeout = 60000
    /\ english_url = None
    /\ visited_urls = {}
    /\ english_timeout = 0
    /\ hops = 0
    /\ hop_pc = "idle"

\* FreeProxyManager.__init__ behind EmailExtractor(use_proxy=False): no pool
PoolIdle ==
    /\ use_proxy = FALSE
    /\ failed_proxies = {}
    /\ current_index = 0
    /\ proxy = NotCalled
    /\ healed = FALSE

\* the extractor after initialize(), close() not called
CloseIdle ==
    /\ context = "open"
    /\ browser = "open"
    /\ playwright_instance = "open"
    /\ pages_to_close = {}
    /\ close_pc = "idle"
    /\ close_log = {}

\* main.py with the connection accepted and no action received yet; the
\* callers of cleanup_extractor are the handler (0) and the tasks
RegistryIdle ==
    /\ active_extractors = 0
    /\ active_tasks = 0
    /\ created = 0
    /\ ws_pc = "recv"
    /\ task_pc = [k \in 1..MaxStarts |-> "none"]
    /\ cleanup_pc = [h \in 0..MaxStarts |-> "idle"]
    /\ cleanup_ext = [h \in 0..MaxStarts |-> 0]
    /\ cleanup_wait = [h \in 0..MaxStarts |-> 0]

\* no call of _extract_emails_from_text under observation
FilterIdle ==
    /\ text = None
    /\ domain = None
    /\ returned = <<>>

Init ==
    /\ HopIdle /\ PoolIdle /\ CloseIdle /\ FilterIdle /\ RegistryIdle
    /\ use_proxy_fallback \in BOOLEAN
    /\ paused = FALSE
    /\ stopped = FALSE
    /\ sem = MaxConcurrency
    /\ pc = [w \in Urls |-> "start"]
    /\ attempt = [w \in Urls |-> 0]
    /\ current_context = [w \in Urls |-> "direct"]
    /\ emails = [w \in Urls |-> {}]
    /\ nav = [w \in Urls |-> "none"]
    /\ extract_failed = [w \in Urls |-> FALSE]
    /\ result = [w \in Urls |-> NoResult]
    /\ all_emails = {}
    /\ failed_urls = EmptyBag
    /\ no_email_urls = EmptyBag
    /\ completed_count = 0
    /\ progress = <<>>
    /\ batch = "running"
    /\ summary = NoResult
    /\ dispatched_at_stop = -1
    /\ total = NumUrls
    /\ _pages = {}
    /\ events = <<>>

\* ---- process_url ---------------------------------------------------------

\* mutant: an aggregation that writes back a stale copy of all_emails
FinishOverwrites(w, res) ==
    /\ result' = [result EXCEPT ![w] = res]
    /\ all_emails' = res.emails
    /\ failed_urls' =
         IF ~res.success
         THEN failed_urls (+) SetToBag({[url |-> w,
                  error |-> IF res.error = NoError THEN "unknown" ELSE res.error]})
         ELSE failed_urls
    /\ no_email_urls' =
         IF res.success /\ res.count = 0
         THEN no_email_urls (+) SetToBag({w})
         ELSE no_email_urls
    /\ completed_count' = completed_count + 1
    /\ progress' = Append(progress, ProgressValue(completed_count + 1, total))
    /\ sem' = sem + 1
    /\ pc' = [pc EXCEPT ![w] = "done"]
    /\ attempt' = [attempt EXCEPT ![w] = 0]
    /\ emails' = [emails EXCEPT ![w] = {}]
    /\ extract_failed' = [extract_failed EXCEPT ![w] = FALSE]

\* the tail of process_url once extract_from_url has returned res:
\* aggregation under results_lock, the progress update and event in the
\* finally clause, and the release of the semaphore; the locals of the
\* returned call are gone.  Both locks are free whenever a task asks for
\* them (nothing is awaited while one is held), so the tail runs without a
\* suspension up to the progress callback.  extract_from_url catches what
\* the renderer raises and the callback of main.py swallows its own
\* failures, so the `except Exception` branch of process_url is not entered.
Finish(w, res) ==
    /\ result' = [result EXCEPT ![w] = res]
    /\ all_emails' = all_emails \cup res.emails
    /\ failed_urls' =
         IF ~res.success
         THEN failed_urls (+) SetToBag({[url |-> w,
                  error |-> IF res.error = NoError THEN "unknown" ELSE res.error]})
         ELSE failed_urls
    /\ no_email_urls' =
         IF res.success /\ res.count = 0
         THEN no_email_urls (+) SetToBag({w})
         ELSE no_email_urls
    /\ completed_count' = completed_count + 1
    /\ progress' = Append(progress, ProgressValue(completed_count + 1, total))
    /\ sem' = sem + 1
    /\ pc' = [pc EXCEPT ![w] = "done"]
    /\ attempt' = [attempt EXCEPT ![w] = 0]
    /\ emails' = [emails EXCEPT ![w] = {}]
    /\ extract_failed' = [extract_failed EXCEPT ![w] = FALSE]

\* what a task does once it holds the semaphore and is not (or no longer)
\* held in the pause loop, `permits` being free: `if self.stopped: return`
\* leaves the `async with` without touching the results; otherwise
\* callback('log', "正在处理 ...")
PassGate(w, permits) ==
    IF SkipsUrl(stopped)
    THEN /\ pc' = [pc EXCEPT ![w] = "done"]
         /\ result' = [result EXCEPT ![w] = Skipped]
         /\ sem' = permits + 1
    ELSE /\ pc' = [pc EXCEPT ![w] = "log"]
         /\ sem' = permits
         /\ UNCHANGED result

\* async with sem: the permit is taken and the task runs on, without a
\* suspension, into the pause loop; it sleeps there ("gate") while paused
Acquire(w) ==
    /\ batch = "running"
    /\ pc[w] = "start"
    /\ CanAcquire(sem)
    /\ IF PauseLoopBlocks(paused, stopped)
       THEN /\ pc' = [pc EXCEPT ![w] = "gate"]
            /\ sem' = sem - 1
            /\ UNCHANGED result
       ELSE PassGate(w, sem - 1)
    /\ UNCHANGED <<cfgVars, ctlVars, locVars, aggVars, _pages, outVars>>

\* asyncio.sleep(0.5) of the pause loop returns and the loop condition is
\* false
Gate(w) ==
    /\ pc[w] = "gate"
    /\ ~PauseLoopBlocks(paused, stopped)
    /\ PassGate(w, sem)
    /\ UNCHANGED <<cfgVars, ctlVars, locVars, aggVars, _pages, outVars>>

\* ---- extract_from_url ---------------------------------------------------

\* current_context = context or self.context, read once when the call
\* starts: the direct context, or None once close() has dropped it
CurrentContext(ctx) == IF ctx = "none" THEN "none" ELSE "direct"

\* the dict returned when current_context is None: 'emails': list(emails),
\* 'count': 0, 'success': False, 'error': '浏览器上下文不存在'
NoContextResult(ems) ==
    [kind |-> "result", emails |-> ems, count |-> 0,
     success |-> FALSE, error |-> NoContext]

\* one iteration head of `for attempt in range(max_attempts)`: the stop check,
\* the check of current_context (ctx), then current_context.new_page()
AttemptHead(w, att, ctx) ==
    IF AttemptStops(stopped)
    THEN Finish(w, MakeResult(emails[w], FALSE, UserStopped))
    ELSE IF ctx = "none"
         THEN Finish(w, NoContextResult(emails[w]))
         ELSE /\ pc' = [pc EXCEPT ![w] = "nav"]
              /\ attempt' = [attempt EXCEPT ![w] = att]
              /\ UNCHANGED <<emails, extract_failed, result, aggVars, sem>>

\* callback('log', ...) returns and extract_from_url(url, callback) is called
Dispatch(w) ==
    /\ pc[w] = "log"
    /\ current_context' =
         [current_context EXCEPT ![w] = CurrentContext(context)]
    /\ AttemptHead(w, 0, current_context'[w])
    /\ UNCHANGED <<cfgVars, ctlVars, nav, _pages, outVars>>

\* mutant: a timeout ends the call at once, whatever the attempt
NavFailureNoRetry(w, outcome) ==
    Finish(w, MakeResult(emails[w], FALSE,
                         IF outcome = "timeout" THEN NavTimeout ELSE RendererError))

\* the except clauses of the attempt loop, for an exception raised by
\* new_page or page.goto: PlaywrightTimeout on an attempt that is not the
\* last sleeps 2 s, the page is closed and the loop goes to its next
\* iteration head; on the last attempt the loop is over; any other
\* exception breaks out of the loop
NavFailure(w, outcome) ==
    IF outcome = "timeout"
    THEN IF IsLastAttempt(attempt[w])
         THEN Finish(w, MakeResult(emails[w], FALSE, NavTimeout))
         ELSE AttemptHead(w, attempt[w] + 1, current_context[w])
    ELSE Finish(w, MakeResult(emails[w], FALSE, RendererError))

\* the local error_message of a call that has a loaded page: the challenge
\* text if the page showed an indicator (set before the raise that is
\* swallowed), else the timeout text left by an earlier attempt, else None
ErrorMessage(outcome, att) ==
    IF outcome = "captcha" THEN BotChallenge
    ELSE IF att > 0 THEN NavTimeout
    ELSE NoError

\* a loaded page: the title/URL challenge check; unless it returns the
\* failure, _extract_from_page returns `found`, and then comes the
\* `if not self.stopped` test in front of the English-variant lookup
NavLoaded(w, outcome, found) ==
    IF ChallengeCheck(outcome = "captcha", use_proxy_fallback, attempt[w]) = "fail"
    THEN Finish(w, MakeResult({}, FALSE, BotChallenge))
    ELSE IF ~stopped
         THEN /\ pc' = [pc EXCEPT ![w] = "english"]
              /\ emails' = [emails EXCEPT ![w] = @ \cup found]
              /\ extract_failed' = [extract_failed EXCEPT ![w] = (outcome = "exterror")]
              /\ UNCHANGED <<attempt, result, aggVars, sem>>
         ELSE Finish(w, MakeResult(emails[w] \cup found, TRUE,
                                   ErrorMessage(outcome, attempt[w])))

\* page = await current_context.new_page(); self._pages.append(page)
OpenPage(ps, w) == ps \cup {w}

\* mutant: a finally clause that leaves the page in the tracked list
ClosePageLeaks(ps, w) == ps

\* the finally clause of an attempt: page.close() if the page is not closed
\* yet, and the page is taken out of _pages whether or not the close raised
ClosePage(ps, w) == ps \ {w}

\* new_page, the random delay and page.goto(url) of one attempt, with what
\* follows its outcome.  A loaded page whose content cannot be read
\* ("exterror": page.content or page.inner_text raises) is a loaded page on
\* which _extract_from_page logs the exception and returns set().  The page stays open for the
\* English-variant lookup; on every other way out of the attempt the finally
\* clause has closed it (when it is new_page that raised there is no page
\* to close and none in _pages)
Navigate(w, outcome, found) ==
    /\ pc[w] = "nav"
    /\ nav' = [nav EXCEPT ![w] = IF outcome = "exterror" THEN "ok" ELSE outcome]
    /\ outcome = "exterror" => found = {}
    /\ IF outcome \in {"timeout", "error"}
       THEN found = {} /\ NavFailure(w, outcome)
       ELSE NavLoaded(w, outcome, found)
    /\ _pages' = IF pc'[w] = "english"
                 THEN OpenPage(_pages, w)
                 ELSE ClosePage(OpenPage(_pages, w), w)
    /\ UNCHANGED <<cfgVars, ctlVars, current_context, outVars>>

\* mutant: success is declared only when an address was found
EnglishRequiresEmails(w, hop, found) ==
    /\ pc[w] = "english"
    /\ hop # "ok" => found = {}
    /\ IF hop = "fail"
       THEN /\ pc' = [pc EXCEPT ![w] = "hopfailed"]
            /\ UNCHANGED <<attempt, emails, extract_failed, result, aggVars,
                           sem, _pages>>
       ELSE /\ Finish(w, MakeResult(emails[w] \cup (found \ emails[w]),
                                    emails[w] \cup found # {}, RendererError))
            /\ _pages' = ClosePage(_pages, w)
    /\ UNCHANGED <<cfgVars, ctlVars, current_context, nav, outVars>>

\* _find_english_link and the secondary hop: no usable link ("nolink"), a
\* loaded variant whose extraction returns `found`, of which the new
\* addresses are added ("ok"), or a page.goto that raises ("fail": caught
\* and logged at 462, the call goes on to its finally clause); without a
\* failure the call returns success and its page is closed
English(w, hop, found) ==
    /\ pc[w] = "english"
    /\ hop # "ok" => found = {}
    /\ IF hop = "fail"
       THEN /\ pc' = [pc EXCEPT ![w] = "hopfailed"]
            /\ UNCHANGED <<attempt, emails, extract_failed, result, aggVars,
                           sem, _pages>>
       ELSE /\ Finish(w, MakeResult(emails[w] \cup (found \ emails[w]),
                                    TRUE, ErrorMessage(nav[w], attempt[w])))
            /\ _pages' = ClosePage(_pages, w)
    /\ UNCHANGED <<cfgVars, ctlVars, current_context, nav, outVars>>

\* mutant: a failed secondary hop fails the call
HopFailedFatal(w) ==
    /\ pc[w] = "hopfailed"
    /\ Finish(w, MakeResult({}, FALSE, RendererError))
    /\ _pages' = ClosePage(_pages, w)
    /\ UNCHANGED <<cfgVars, ctlVars, current_context, nav, outVars>>

\* the call whose secondary hop raised: success = True, the page is closed
\* in the finally clause and the emails of the primary page are returned
HopFailed(w) ==
    /\ pc[w] = "hopfailed"
    /\ Finish(w, MakeResult(emails[w], TRUE,
                            ErrorMessage(nav[w], attempt[w])))
    /\ _pages' = ClosePage(_pages, w)
    /\ UNCHANGED <<cfgVars, ctlVars, current_context, nav, outVars>>

\* ---- extract_from_urls ---------------------------------------------------

\* mutant: the summary is sent without waiting for the tasks
ReturnSummaryEarly ==
    /\ batch = "running"
    /\ batch' = "returned"
    /\ summary' = [kind |-> "summary",
                   emails |-> all_emails,
                   failed_urls |-> failed_urls,
                   no_email_urls |-> no_email_urls,
                   total_processed |-> total,
                   total_emails |-> Cardinality(all_emails)]
    /\ events' = <<"failed_urls", "no_email_urls">>
    /\ UNCHANGED <<cfgVars, ctlVars, sem, pc, locVars, result, aggVars, _pages>>

\* asyncio.gather has returned: the two summary events and the returned dict
ReturnSummary ==
    /\ batch = "running"
    /\ \A w \in Urls : pc[w] = "done"
    /\ batch' = "returned"
    /\ summary' = [kind |-> "summary",
                   emails |-> all_emails,
                   failed_urls |-> failed_urls,
                   no_email_urls |-> no_email_urls,
                   total_processed |-> total,
                   total_emails |-> Cardinality(all_emails)]
    /\ events' = <<"failed_urls", "no_email_urls">>
    /\ UNCHANGED <<cfgVars, ctlVars, sem, pc, locVars, result, aggVars, _pages>>

\* run_extraction of main.py: extract_from_urls has returned and the
\* terminal 'complete' message is sent
SendComplete ==
    /\ batch = "returned"
    /\ events = <<"failed_urls", "no_email_urls">>
    /\ events' = Append(events, "complete")
    /\ UNCHANGED <<cfgVars, ctlVars, sem, pc, locVars, result, aggVars,
                   _pages, batch, summary>>

\* ---- control calls -------------------------------------------------------

\* def pause(self): self.paused = True
Pause ==
    /\ batch = "running"
    /\ paused' = TRUE
    /\ UNCHANGED <<cfgVars, stopped, dispatched_at_stop, sem,
                   pc, locVars, result, aggVars, _pages, outVars>>

\* mutant: resume() that leaves the flag set
ResumeLeavesPaused ==
    /\ batch = "running"
    /\ UNCHANGED vars

\* mutant: resume() that also clears the stop flag
ResumeClearsStopped ==
    /\ batch = "running"
    /\ paused' = FALSE
    /\ stopped' = FALSE
    /\ UNCHANGED <<cfgVars, dispatched_at_stop, sem,
                   pc, locVars, result, aggVars, _pages, outVars>>

\* def resume(self): self.paused = False
Resume ==
    /\ batch = "running"
    /\ paused' = FALSE
    /\ UNCHANGED <<cfgVars, stopped, dispatched_at_stop, sem,
                   pc, locVars, result, aggVars, _pages, outVars>>

\* def stop(self): self.stopped = True; self.paused = False
\* (dispatched_at_stop remembers how many URLs had been handed to
\* extract_from_url at the first call)
Stop ==
    /\ batch = "running"
    /\ stopped' = TRUE
    /\ paused' = FALSE
    /\ dispatched_at_stop' =
         IF ~stopped THEN Cardinality({w \in Urls : Dispatched(w)})
         ELSE dispatched_at_stop
    /\ UNCHANGED <<cfgVars, sem, pc, locVars, result,
                   aggVars, _pages, outVars>>

\* ---- specification -------------------------------------------------------

NavOutcomes == {"ok", "exterror", "captcha", "timeout", "error"}
HopOutcomes == {"nolink", "fail", "ok"}

WorkerStep(w) ==
    \/ Acquire(w)
    \/ Gate(w)
    \/ Dispatch(w)
    \/ \E o \in NavOutcomes, f \in SUBSET Emails : Navigate(w, o, f)
    \/ \E h \in HopOutcomes, f \in SUBSET Emails : English(w, h, f)
    \/ HopFailed(w)

Next ==
    \/ \E w \in Urls : WorkerStep(w)
    \/ ReturnSummary
    \/ SendComplete
    \/ Pause
    \/ Resume
    \/ Stop

Spec == Init /\ [][Next]_vars

\* ---- the progress accounting alone ---------------------------------------
\* a batch of `total` URLs seen only through the finally clause of
\* process_url: each step is one task finishing

ProgressInit ==
    /\ HopIdle /\ PoolIdle /\ CloseIdle /\ FilterIdle /\ RegistryIdle
    /\ total \in 1..MaxTotal
    /\ use_proxy_fallback = FALSE
    /\ paused = FALSE
    /\ stopped = FALSE
    /\ sem = MaxConcurrency
    /\ pc = [w \in Urls |-> "start"]
    /\ attempt = [w \in Urls |-> 0]
    /\ current_context = [w \in Urls |-> "direct"]
    /\ emails = [w \in Urls |-> {}]
    /\ nav = [w \in Urls |-> "none"]
    /\ extract_failed = [w \in Urls |-> FALSE]
    /\ result = [w \in Urls |-> NoResult]
    /\ all_emails = {}
    /\ failed_urls = EmptyBag
    /\ no_email_urls = EmptyBag
    /\ completed_count = 0
    /\ progress = <<>>
    /\ batch = "running"
    /\ summary = NoResult
    /\ dispatched_at_stop = -1
    /\ _pages = {}
    /\ events = <<>>

\* async with progress_lock: completed_count += 1; current_progress = ...
\* and callback('progress', current_progress)
ProgressStep ==
    /\ completed_count < total
    /\ completed_count' = completed_count + 1
    /\ progress' = Append(progress, ProgressValue(completed_count + 1, total))
    /\ UNCHANGED <<cfgVars, ctlVars, sem, pc, locVars, result, all_emails,
                   failed_urls, no_email_urls, _pages, outVars>>

ProgressNext == ProgressStep

ProgressSpec == ProgressInit /\ [][ProgressNext]_vars

\* the steps of a task other than leaving the pause loop
RunStep(w) ==
    \/ Acquire(w)
    \/ Dispatch(w)
    \/ \E o \in NavOutcomes, f \in SUBSET Emails : Navigate(w, o, f)
    \/ \E h \in HopOutcomes, f \in SUBSET Emails : English(w, h, f)
    \/ HopFailed(w)

\* the event loop runs every task that is ready and every renderer call
\* returns or times out (WF on the steps of a task); the pause loop polls
\* every 0.5 s, so a task held in it gets out if the flag is clear again
\* and again (SF on Gate); a pause is followed by a resume (WF on Resume)
LiveSpec ==
    /\ Init /\ [][Next]_vars
    /\ \A w \in Urls : WF_vars(RunStep(w)) /\ SF_vars(Gate(w))
    /\ WF_vars(ReturnSummary)
    /\ WF_vars(Resume)

TypeOK ==
    /\ use_proxy_fallback \in BOOLEAN
    /\ paused \in BOOLEAN /\ stopped \in BOOLEAN
    /\ sem \in 0..MaxConcurrency
    /\ pc \in [Urls -> {"start", "gate", "log", "nav", "english", "hopfailed",
                       "done"}]
    /\ attempt \in [Urls -> 0..(MaxAttempts - 1)]
    /\ emails \in [Urls -> SUBSET Emails]
    /\ extract_failed \in [Urls -> BOOLEAN]
    /\ completed_count \in 0..NumUrls
    /\ batch \in {"running", "returned"}
    /\ total = NumUrls
    /\ _pages \subseteq Urls


\* ---- strings -------------------------------------------------------------
\* a Python str is the sequence of its characters

\* s.startswith(t, i - 1)
StartsWithAt(s, i, t) ==
    /\ i + Len(t) - 1 <= Len(s)
    /\ \A k \in 1..Len(t) : s[i + k - 1] = t[k]

\* t in s
Contains(s, t) == \E i \in 1..(Len(s) + 1) : StartsWithAt(s, i, t)

\* s.endswith(t)
EndsWith(s, t) == Len(t) <= Len(s) /\ StartsWithAt(s, Len(s) - Len(t) + 1, t)

\* ---- the state outside the part under study -------------------------------

\* what the tasks of the batch own, and the batch's configuration
batchVars == <<use_proxy_fallback, total, dispatched_at_stop, sem, pc, locVars,
               result, aggVars, outVars>>

\* ... with the session registry of the server, which no call on the
\* extractor writes
taskVars == <<batchVars, registryVars>>

\* a batch that has not started a task
TasksIdle ==
    /\ use_proxy_fallback = FALSE
    /\ sem = MaxConcurrency
    /\ pc = [w \in Urls |-> "start"]
    /\ attempt = [w \in Urls |-> 0]
    /\ current_context = [w \in Urls |-> "direct"]
    /\ emails = [w \in Urls |-> {}]
    /\ nav = [w \in Urls |-> "none"]
    /\ extract_failed = [w \in Urls |-> FALSE]
    /\ result = [w \in Urls |-> NoResult]
    /\ all_emails = {}
    /\ failed_urls = EmptyBag
    /\ no_email_urls = EmptyBag
    /\ completed_count = 0
    /\ progress = <<>>
    /\ batch = "running"
    /\ summary = NoResult
    /\ dispatched_at_stop = -1
    /\ total = NumUrls
    /\ events = <<>>

\* ... of an extractor just constructed and initialized
EngineIdle ==
    /\ TasksIdle
    /\ paused = FALSE
    /\ stopped = FALSE
    /\ _pages = {}

engineVars == <<taskVars, paused, stopped, _pages>>

\* ---- the English step of one attempt, await by await ---------------------
\* lines 440-463 of extract_from_url, entered after the primary page was
\* loaded and read; stop() may be called at each of its awaits

EnSegment == <<"/", "e", "n", "/">>                  \* '/en/'
PlainUrl == <<"h", "t", "t", "p", ":", "/", "/", "a", ".", "i", "o", "/">>
EnglishUrl == <<"h", "t", "t", "p", ":", "/", "/", "a", ".", "i", "o", "/", "e", "n", "/">>
EnglishNoSlashUrl == <<"h", "t", "t", "p", ":", "/", "/", "a", ".", "i", "o", "/", "e", "n">>

\* the URLs given to extract_from_url and the hrefs _find_english_link
\* returns (None: no link found, or the lookup raised)
RequestedUrls == {PlainUrl, EnglishUrl, EnglishNoSlashUrl}
FoundLinks == {None} \cup RequestedUrls

\* values of PAGE_TIMEOUT, in ms
PageTimeouts == {1, 5000, 9999, 10000, 10001, 19999, 20000, 20001, 60000}

Max(a, b) == IF a >= b THEN a ELSE b

\* mutant: the English navigation given the whole page timeout
EnglishTimeoutWhole(t) == Max(10000, t)

\* english_timeout = max(10000, page_timeout // 2)
EnglishTimeout(t) == Max(10000, t \div 2)

\* mutant: the test of line 443 without its visited_urls part
HopWantedRevisits(link, visited, u) ==
    /\ link # None
    /\ ~Contains(u, EnSegment)

\* if english_url and english_url not in visited_urls and '/en/' not in url
HopWanted(link, visited, u) ==
    /\ link # None
    /\ link \notin visited
    /\ ~Contains(u, EnSegment)

HopInit ==
    /\ EngineIdle /\ PoolIdle /\ CloseIdle /\ FilterIdle /\ RegistryIdle
    /\ url \in RequestedUrls
    /\ page_timeout \in PageTimeouts
    /\ english_url = None
    /\ visited_urls = {url}
    /\ english_timeout = 0
    /\ hops = 0
    /\ hop_pc = "check"

\* if not self.stopped: (441)
HopCheck ==
    /\ hop_pc = "check"
    /\ hop_pc' = IF stopped THEN "done" ELSE "lookup"
    /\ UNCHANGED <<taskVars, paused, stopped, _pages, url, page_timeout,
                   english_url, visited_urls, english_timeout, hops,
                   poolVars, closeVars, filterVars>>

\* english_url = await self._find_english_link(page) returns, and the test
\* of line 443 on what it returned; a hop that is wanted is first announced
\* with await callback('log', ...)
HopLookup(link) ==
    /\ hop_pc = "lookup"
    /\ english_url' = link
    /\ hop_pc' = IF HopWanted(link, visited_urls, url) THEN "announce"
                 ELSE "done"
    /\ UNCHANGED <<taskVars, paused, stopped, _pages, url, page_timeout,
                   visited_urls, english_timeout, hops,
                   poolVars, closeVars, filterVars>>

\* the callback returned: page.goto(english_url, timeout=english_timeout)
\* and, if it loads, visited_urls.add(english_url); a failure is logged by
\* the except clause of 462
HopGoto(outcome) ==
    /\ hop_pc = "announce"
    /\ english_timeout' = EnglishTimeout(page_timeout)
    /\ hops' = hops + 1
    /\ visited_urls' = IF outcome = "ok" THEN visited_urls \cup {english_url}
                       ELSE visited_urls
    /\ hop_pc' = "done"
    /\ UNCHANGED <<taskVars, paused, stopped, _pages, url, page_timeout,
                   english_url, poolVars, closeVars, filterVars>>

HopNext ==
    \/ HopCheck
    \/ \E link \in FoundLinks : HopLookup(link)
    \/ \E outcome \in {"ok", "fail"} : HopGoto(outcome)
    \/ Stop

HopSpec == HopInit /\ [][HopNext]_vars


\* ---- the proxy pool -------------------------------------------------------
\* FreeProxyManager on its own: its calls are synchronous, each is one step

PoolMembers == {FREE_PROXIES[i] : i \in 1..NumProxies}

IsAvailable(p) == p.server \notin failed_proxies

\* mutant: a filter that lets the failed endpoints through
AvailableAll == FREE_PROXIES

\* available_proxies = [p for p in self.FREE_PROXIES
\*                      if p["server"] not in self.failed_proxies]
Available == SelectSeq(FREE_PROXIES, IsAvailable)

\* mutant: the all-failed case that leaves the failed set as it is
ResetIfExhaustedKeeps(avail) == failed_proxies

\* if not available_proxies: self.failed_proxies.clear()
ResetIfExhausted(avail) == IF avail = <<>> THEN {} ELSE failed_proxies

\* if not available_proxies: available_proxies = self.FREE_PROXIES
Candidates(avail) == IF avail = <<>> THEN FREE_PROXIES ELSE avail

ProxyInit ==
    /\ EngineIdle /\ HopIdle /\ CloseIdle /\ FilterIdle /\ RegistryIdle
    /\ use_proxy \in BOOLEAN
    /\ failed_proxies = {}
    /\ current_index = 0
    /\ proxy = NotCalled
    /\ healed = FALSE

\* def get_next_proxy(self)
get_next_proxy ==
    /\ current_index < MaxIndex
    /\ IF ~use_proxy
       THEN /\ proxy' = NoProxy
            /\ healed' = FALSE
            /\ UNCHANGED <<failed_proxies, current_index>>
       ELSE LET avail == Available
                cands == Candidates(avail)
            IN /\ failed_proxies' = ResetIfExhausted(avail)
               /\ healed' = (avail = <<>>)
               /\ proxy' = cands[(current_index % Len(cands)) + 1]
               /\ current_index' = current_index + 1
    /\ UNCHANGED <<taskVars, paused, stopped, _pages, use_proxy, hopVars,
                   closeVars, filterVars>>

\* def get_random_proxy(self): random.choice returns any element
get_random_proxy ==
    /\ IF ~use_proxy
       THEN /\ proxy' = NoProxy
            /\ healed' = FALSE
            /\ UNCHANGED failed_proxies
       ELSE LET avail == Available
                cands == Candidates(avail)
            IN /\ failed_proxies' = ResetIfExhausted(avail)
               /\ healed' = (avail = <<>>)
               /\ \E i \in 1..Len(cands) : proxy' = cands[i]
    /\ UNCHANGED <<taskVars, paused, stopped, _pages, use_proxy,
                   current_index, hopVars, closeVars, filterVars>>

\* def mark_proxy_failed(self, proxy_server)
mark_proxy_failed(proxy_server) ==
    /\ failed_proxies' = failed_proxies \cup {proxy_server}
    /\ healed' = FALSE
    /\ UNCHANGED <<taskVars, paused, stopped, _pages, use_proxy,
                   current_index, proxy, hopVars, closeVars, filterVars>>

\* def reset_failed_proxies(self)
reset_failed_proxies ==
    /\ failed_proxies' = {}
    /\ healed' = FALSE
    /\ UNCHANGED <<taskVars, paused, stopped, _pages, use_proxy,
                   current_index, proxy, hopVars, closeVars, filterVars>>

\* def get_stats(self): total = len(self.FREE_PROXIES),
\* failed = len(self.failed_proxies), available = total - failed
get_stats ==
    LET total_ == Len(FREE_PROXIES)
        failed == Cardinality(failed_proxies)
    IN [total |-> total_, available |-> total_ - failed, failed |-> failed]

\* the endpoints a selection call made now may return: the candidates of
\* get_random_proxy, any of which random.choice picks
Selectable ==
    LET cands == Candidates(Available)
    IN {cands[i] : i \in 1..Len(cands)}

ProxyNext ==
    \/ get_next_proxy
    \/ get_random_proxy
    \/ \E proxy_server \in ServerAddresses : mark_proxy_failed(proxy_server)
    \/ reset_failed_proxies

ProxySpec == ProxyInit /\ [][ProxyNext]_vars


\* ---- close() ---------------------------------------------------------------
\* EmailExtractor.close() on its own, await by await.  context, browser and
\* playwright_instance are "open" or "none" (None).  Each awaited close
\* returns, raises or runs into the timeout of its wait_for; a page may also
\* be closed already (page.is_closed()).

CloseOutcomes == {"ok", "raise", "timeout"}

\* except asyncio.TimeoutError: logger.warning(...) and
\* except Exception as e: logger.warning(...)
Logged(step, outcome) ==
    IF outcome \in {"raise", "timeout"}
    THEN close_log \cup {<<step, outcome>>}
    ELSE close_log

\* the first of the later steps whose `if self.<resource>:` holds; step 5
\* and the sleep of step 6 follow the last of them
AfterBrowser == IF playwright_instance # "none" THEN "playwright" ELSE "sleep"
AfterContext == IF browser # "none" THEN "browser" ELSE AfterBrowser
AfterPages == IF context # "none" THEN "context" ELSE AfterContext

\* self.stopped = True at 682, self.stopped = False at 738 (step 5 runs in
\* the step that reaches the sleep of step 6)
StoppedAt(pos) == pos # "sleep"

\* self.paused = False at 739
PausedAt(pos) == IF pos = "sleep" THEN FALSE ELSE paused

\* the extractor when close() is called: after initialize(), after an
\* initialize() that failed part-way (224, 236), with or without tracked
\* pages, in any state of the control flags
CloseInit ==
    /\ TasksIdle /\ HopIdle /\ PoolIdle /\ FilterIdle /\ RegistryIdle
    /\ paused \in BOOLEAN
    /\ stopped \in BOOLEAN
    /\ playwright_instance \in {"none", "open"}
    /\ browser \in {"none", "open"}
    /\ context \in {"none", "open"}
    /\ browser = "open" => playwright_instance = "open"
    /\ context = "open" => browser = "open"
    /\ _pages \in SUBSET Urls
    /\ _pages # {} => context = "open"
    /\ pages_to_close = {}
    /\ close_pc = "idle"
    /\ close_log = {}

\* self.stopped = True; if self._pages: pages_to_close = self._pages[:]
CloseStart ==
    /\ close_pc = "idle"
    /\ pages_to_close' = _pages
    /\ close_pc' = IF _pages # {} THEN "pages" ELSE AfterPages
    /\ stopped' = StoppedAt(close_pc')
    /\ paused' = PausedAt(close_pc')
    /\ UNCHANGED <<taskVars, _pages, context, browser, playwright_instance,
                   close_log, hopVars, poolVars, filterVars>>

\* one turn of `for page in pages_to_close`: is_closed(), or the awaited
\* page.close() with its outcome, every exception logged; after the last
\* page self._pages.clear()
CloseOnePage(page, outcome) ==
    /\ close_pc = "pages"
    /\ page \in pages_to_close
    /\ pages_to_close' = pages_to_close \ {page}
    /\ IF pages_to_close' = {}
       THEN /\ _pages' = {}
            /\ close_pc' = AfterPages
       ELSE UNCHANGED <<_pages, close_pc>>
    /\ stopped' = StoppedAt(close_pc')
    /\ paused' = PausedAt(close_pc')
    /\ close_log' = Logged("page", outcome)
    /\ UNCHANGED <<taskVars, context, browser, playwright_instance,
                   hopVars, poolVars, filterVars>>

\* mutant: step 2 without its except and finally clauses: the exception
\* reaches the except clause of 746, which ends close()
CloseContextUnguarded(outcome) ==
    /\ close_pc = "context"
    /\ context' = IF outcome = "ok" THEN "none" ELSE context
    /\ close_pc' = IF outcome = "ok" THEN AfterContext ELSE "done"
    /\ stopped' = StoppedAt(close_pc')
    /\ paused' = PausedAt(close_pc')
    /\ close_log' = Logged("context", outcome)
    /\ UNCHANGED <<taskVars, _pages, browser, playwright_instance,
                   pages_to_close, hopVars, poolVars, filterVars>>

\* step 2: await wait_for(self.context.close(), 10.0); finally context = None
CloseContext(outcome) ==
    /\ close_pc = "context"
    /\ context' = "none"
    /\ close_pc' = AfterContext
    /\ stopped' = StoppedAt(close_pc')
    /\ paused' = PausedAt(close_pc')
    /\ close_log' = Logged("context", outcome)
    /\ UNCHANGED <<taskVars, _pages, browser, playwright_instance,
                   pages_to_close, hopVars, poolVars, filterVars>>

\* step 3: await wait_for(self.browser.close(), 10.0); finally browser = None
CloseBrowser(outcome) ==
    /\ close_pc = "browser"
    /\ browser' = "none"
    /\ close_pc' = AfterBrowser
    /\ stopped' = StoppedAt(close_pc')
    /\ paused' = PausedAt(close_pc')
    /\ close_log' = Logged("browser", outcome)
    /\ UNCHANGED <<taskVars, _pages, context, playwright_instance,
                   pages_to_close, hopVars, poolVars, filterVars>>

\* step 4: await wait_for(self.playwright_instance.stop(), 10.0); finally
\* playwright_instance = None; then step 5
StopPlaywright(outcome) ==
    /\ close_pc = "playwright"
    /\ playwright_instance' = "none"
    /\ close_pc' = "sleep"
    /\ stopped' = StoppedAt(close_pc')
    /\ paused' = PausedAt(close_pc')
    /\ close_log' = Logged("playwright", outcome)
    /\ UNCHANGED <<taskVars, _pages, context, browser, pages_to_close,
                   hopVars, poolVars, filterVars>>

\* step 6: await asyncio.sleep(1.0) is over, close() returns
CloseReturn ==
    /\ close_pc = "sleep"
    /\ close_pc' = "done"
    /\ UNCHANGED <<taskVars, paused, stopped, _pages, context, browser,
                   playwright_instance, pages_to_close, close_log, hopVars,
                   poolVars, filterVars>>

CloseNext ==
    \/ CloseStart
    \/ \E page \in Urls, outcome \in CloseOutcomes \cup {"closed"} :
           CloseOnePage(page, outcome)
    \/ \E outcome \in CloseOutcomes : CloseContext(outcome)
    \/ \E outcome \in CloseOutcomes : CloseBrowser(outcome)
    \/ \E outcome \in CloseOutcomes : StopPlaywright(outcome)
    \/ CloseReturn

CloseSpec == CloseInit /\ [][CloseNext]_vars


\* ---- _extract_emails_from_text ---------------------------------------------
\* the filter pipeline on texts given as the sequences of their characters

LowerCase == <<
    "a", "b", "c", "d", "e", "f", "g", "h", "i", "j", "k", "l", "m", "n",
    "o", "p", "q", "r", "s", "t", "u", "v", "w", "x", "y", "z">>
UpperCase == <<
    "A", "B", "C", "D", "E", "F", "G", "H", "I", "J", "K", "L", "M", "N",
    "O", "P", "Q", "R", "S", "T", "U", "V", "W", "X", "Y", "Z">>
Digits == {"0", "1", "2", "3", "4", "5", "6", "7", "8", "9"}
Letters == {LowerCase[i] : i \in 1..Len(LowerCase)}
    \cup {UpperCase[i] : i \in 1..Len(UpperCase)}

LabelChars == Letters \cup Digits \cup {"-"}             \* [a-z\d\-]
LocalChars == LabelChars \cup {"_", "+", "."}            \* [_a-z\d\-+] and \.
SeparatorChars == {"-", "|", "_"}                       \* [-|_]

IsLetter(c) == c \in Letters                            \* [a-z], re.IGNORECASE
IsDigit(c) == c \in Digits                              \* \d
IsAlnum(c) == IsLetter(c) \/ IsDigit(c)                 \* [a-z\d]
IsWord(c) == IsAlnum(c) \/ c = "_"                      \* \w
IsLocalFirst(c) == c \in LabelChars                     \* [a-z\d\-]
IsSpace(c) == c \in {" "}

\* str.lower() of one character
LowerChar(c) ==
    IF \E i \in 1..Len(UpperCase) : UpperCase[i] = c
    THEN LowerCase[CHOOSE i \in 1..Len(UpperCase) : UpperCase[i] = c]
    ELSE c

\* email.lower()
Lower(s) == SubSeq([i \in 1..Len(s) |-> LowerChar(s[i])], 1, Len(s))

\* str.strip()
Strip(s) ==
    IF \A i \in 1..Len(s) : IsSpace(s[i]) THEN <<>>
    ELSE LET a == CHOOSE i \in 1..Len(s) :
                      ~IsSpace(s[i]) /\ \A k \in 1..(i - 1) : IsSpace(s[k])
             b == CHOOSE i \in 1..Len(s) :
                      ~IsSpace(s[i]) /\ \A k \in (i + 1)..Len(s) : IsSpace(s[k])
         IN SubSeq(s, a, b)

EscapedNewline == <<"\\", "n">>                         \* '\\n'

\* text.replace('\\n', ' '), from character i on
RECURSIVE ReplaceFrom(_, _)
ReplaceFrom(s, i) ==
    IF i > Len(s) THEN <<>>
    ELSE IF StartsWithAt(s, i, EscapedNewline)
         THEN <<" ">> \o ReplaceFrom(s, i + 2)
         ELSE <<s[i]>> \o ReplaceFrom(s, i + 1)

\* the index of the last character of the longest run of characters of
\* the class cs that starts at s[i] (i - 1: no such character at i)
RunEnd(s, i, cs) ==
    CHOOSE j \in (i - 1)..Len(s) :
        /\ \A k \in i..j : s[k] \in cs
        /\ j = Len(s) \/ s[j + 1] \notin cs

\* \b between s[i] and s[i + 1]
WordBoundary(s, i) ==
    (i >= 1 /\ IsWord(s[i])) # (i + 1 <= Len(s) /\ IsWord(s[i + 1]))

\* (?:\.[a-z\d\-]+)*(?:\.[a-z]{2,63})\b after s[p]: the index where the
\* match ends, 0 if there is none.  The repetition is greedy: one more label
\* is tried first; a label or a top-level domain shorter than the run of its
\* characters is followed by neither '.' nor a boundary.
RECURSIVE DomainTail(_, _)
DomainTail(s, p) ==
    IF ~(p + 1 <= Len(s) /\ s[p + 1] = ".") THEN 0
    ELSE LET h == RunEnd(s, p + 2, LabelChars)
             more == IF h >= p + 2 THEN DomainTail(s, h) ELSE 0
             t == RunEnd(s, p + 2, Letters)
         IN IF more # 0 THEN more
            ELSE IF t - (p + 1) >= 2 /\ t - (p + 1) <= 63 /\ WordBoundary(s, t)
                 THEN t
                 ELSE 0

\* pattern = r'\b[a-z\d\-][_a-z\d\-+]*(?:\.[_a-z\d\-+]*)*@[a-z\d]+[a-z\d\-]*
\*            (?:\.[a-z\d\-]+)*(?:\.[a-z]{2,63})\b'
\* matched at s[i]: the index where the match ends, 0 if there is none
MatchEnd(s, i) ==
    IF ~(i <= Len(s) /\ IsLocalFirst(s[i]) /\ WordBoundary(s, i - 1)) THEN 0
    ELSE LET at == RunEnd(s, i + 1, LocalChars) + 1
         IN IF ~(at + 1 <= Len(s) /\ s[at] = "@" /\ IsAlnum(s[at + 1])) THEN 0
            ELSE DomainTail(s, RunEnd(s, at + 1, LabelChars))

\* re.findall(pattern, s, re.IGNORECASE), from character i on
RECURSIVE FindAllFrom(_, _)
FindAllFrom(s, i) ==
    IF i > Len(s) THEN <<>>
    ELSE LET e == MatchEnd(s, i)
         IN IF e # 0 THEN <<SubSeq(s, i, e)>> \o FindAllFrom(s, e + 1)
            ELSE FindAllFrom(s, i + 1)

\* re.search(pattern, s, re.IGNORECASE)
Search(s) == \E i \in 1..Len(s) : MatchEnd(s, i) # 0

\* re.fullmatch(pattern, s, re.IGNORECASE): the grammar matched in full
FullMatch(s) == Len(s) > 0 /\ MatchEnd(s, 1) = Len(s)

\* r'^(x3|x2|u003|u0022|sx_mrsp_|3a)'
JunkPrefixes == <<
    <<"x", "3">>,
    <<"x", "2">>,
    <<"u", "0", "0", "3">>,
    <<"u", "0", "0", "2", "2">>,
    <<"s", "x", "_", "m", "r", "s", "p", "_">>,
    <<"3", "a">>>>

\* re.sub(r'^(x3|x2|u003|u0022|sx_mrsp_|3a)', '', email)
StripJunk(s) ==
    IF \E k \in 1..Len(JunkPrefixes) : StartsWithAt(s, 1, JunkPrefixes[k])
    THEN LET k == CHOOSE k \in 1..Len(JunkPrefixes) :
                      /\ StartsWithAt(s, 1, JunkPrefixes[k])
                      /\ \A j \in 1..(k - 1) :
                             ~StartsWithAt(s, 1, JunkPrefixes[j])
         IN SubSeq(s, Len(JunkPrefixes[k]) + 1, Len(s))
    ELSE s

ResourceExtensions == {
    <<".", "p", "n", "g">>,
    <<".", "j", "p", "g">>,
    <<".", "g", "i", "f">>,
    <<".", "c", "s", "s">>,
    <<".", "w", "e", "b", "p">>,
    <<".", "c", "r", "x", "1">>,
    <<".", "j", "s">>}

\* mutant: no resource extension recognised
HasResourceExtensionNever(s) == FALSE

\* email.endswith(('.png', '.jpg', '.gif', '.css', '.webp', '.crx1', '.js'))
HasResourceExtension(s) == \E x \in ResourceExtensions : EndsWith(s, x)

\* re.search(r'\d{n,}', s)
HasDigitRun(s, n) ==
    \E j \in 1..Len(s) :
        j + n - 1 <= Len(s) /\ \A k \in j..(j + n - 1) : IsDigit(s[k])

\* re.search(r'(no|not)[-|_]*reply|mailer[-|_]*daemon|reply.+\d{5,}', s)
IsReplyBounce(s) ==
    \E i \in 1..Len(s) :
        \/ /\ StartsWithAt(s, i, <<"n", "o">>)
           /\ \/ StartsWithAt(s, RunEnd(s, i + 2, SeparatorChars) + 1, <<"r", "e", "p", "l", "y">>)
              \/ /\ StartsWithAt(s, i, <<"n", "o", "t">>)
                 /\ StartsWithAt(s, RunEnd(s, i + 3, SeparatorChars) + 1,
                                 <<"r", "e", "p", "l", "y">>)
        \/ /\ StartsWithAt(s, i, <<"m", "a", "i", "l", "e", "r">>)
           /\ StartsWithAt(s, RunEnd(s, i + 6, SeparatorChars) + 1, <<"d", "a", "e", "m", "o", "n">>)
        \/ /\ StartsWithAt(s, i, <<"r", "e", "p", "l", "y">>)
           /\ \E j \in (i + 6)..Len(s) :
                  j + 4 <= Len(s) /\ \A k \in j..(j + 4) : IsDigit(s[k])

\* spam_keywords
SpamKeywords == {
    <<"n", "o", "n", "d", "e", "l", "i", "v", "e", "r", "y">>,
    <<"@", "l", "i", "n", "k", "e", "d", "i", "n", ".", "c", "o", "m">>,
    <<"@", "s", "e", "n", "t", "r", "y">>,
    <<"@", "l", "i", "n", "k", "e", "d", "h", "e", "l", "p", "e", "r", ".", "c", "o", "m">>,
    <<"f", "e", "e", "d", "b", "a", "c", "k">>,
    <<"n", "o", "t", "i", "f", "i", "c", "a", "t", "i", "o", "n">>}

\* any(keyword in email for keyword in spam_keywords)
HasSpamKeyword(s) == \E k \in SpamKeywords : Contains(s, k)

FAKE_EMAIL_PREFIXES == {
    <<"t", "h", "e">>,
    <<"2">>,
    <<"3">>,
    <<"4">>,
    <<"1", "2", "3">>,
    <<"2", "0", "i", "n", "f", "o">>,
    <<"a", "a", "a">>,
    <<"a", "b">>,
    <<"a", "b", "c">>,
    <<"a", "c", "c">>,
    <<"a", "c", "c", "_", "k", "a", "z">>,
    <<"a", "c", "c", "o", "u", "n", "t">>,
    <<"a", "c", "c", "o", "u", "n", "t", "s">>,
    <<"a", "c", "c", "u", "e", "i", "l">>,
    <<"a", "d">>,
    <<"a", "d", "i">>,
    <<"a", "d", "m">>,
    <<"a", "n">>,
    <<"a", "n", "d">>,
    <<"a", "v", "a", "i", "l", "a", "b", "l", "e">>,
    <<"c", "c">>,
    <<"c", "o", "m">>,
    <<"d", "o", "m", "a", "i", "n">>,
    <<"d", "o", "m", "e", "n">>,
    <<"e", "m", "a", "i", "l">>,
    <<"f", "b">>,
    <<"f", "o", "i">>,
    <<"f", "o", "r">>,
    <<"f", "o", "u", "n", "d">>,
    <<"g", "e", "t">>,
    <<"h", "e", "r", "e">>,
    <<"i", "n", "c", "l", "u", "d", "e", "s">>,
    <<"l", "i", "n", "k", "e", "d", "i", "n">>,
    <<"m", "a", "i", "l", "b", "o", "x">>,
    <<"m", "o", "r", "e">>,
    <<"m", "y", "_", "n", "a", "m", "e">>,
    <<"n", "a", "m", "e">>,
    <<"n", "e", "e", "d">>,
    <<"n", "f", "o">>,
    <<"n", "i", "n", "f", "o">>,
    <<"n", "o", "w">>,
    <<"o", "n", "l", "i", "n", "e">>,
    <<"p", "o", "s", "t">>,
    <<"s", "a", "l", "e", "s", "2">>,
    <<"t", "e", "s", "t">>,
    <<"u", "p">>,
    <<"w", "e">>,
    <<"w", "w", "w">>,
    <<"x", "x", "x">>,
    <<"x", "x", "x", "x", "x">>,
    <<"u", "s", "e", "r", "n", "a", "m", "e">>,
    <<"f", "i", "r", "s", "t", "n", "a", "m", "e", ".", "l", "a", "s", "t", "n", "a", "m", "e">>,
    <<"y", "o", "u", "r", ".", "n", "a", "m", "e">>,
    <<"u", "n", "s", "u", "b", "s", "c", "r", "i", "b", "e">>}

\* email.split('@')[0]
LocalPart(s) ==
    IF \E i \in 1..Len(s) : s[i] = "@"
    THEN SubSeq(s, 1, (CHOOSE i \in 1..Len(s) :
                           s[i] = "@" /\ \A k \in 1..(i - 1) : s[k] # "@") - 1)
    ELSE s

\* mutant: no local part recognised as fake
HasFakePrefixNever(s) == FALSE

\* email_prefix in self.FAKE_EMAIL_PREFIXES
HasFakePrefix(s) == LocalPart(s) \in FAKE_EMAIL_PREFIXES

\* one turn of `for email in matches`: valid_emails after it
Filtered(valid_emails, match, d) ==
    LET email == Strip(Lower(match))
        cleaned == StripJunk(email)
    IN IF email \in valid_emails THEN valid_emails
       ELSE IF d # None /\ ~Contains(email, d) THEN valid_emails
       ELSE IF HasResourceExtension(email) THEN valid_emails
       ELSE IF cleaned # email /\ ~Search(cleaned) THEN valid_emails
       ELSE IF IsReplyBounce(cleaned) THEN valid_emails
       ELSE IF HasDigitRun(cleaned, 13) THEN valid_emails
       ELSE IF HasSpamKeyword(cleaned) THEN valid_emails
       ELSE IF HasFakePrefix(cleaned) THEN valid_emails
       ELSE IF cleaned # <<>> THEN valid_emails \cup {cleaned}
       ELSE valid_emails

\* the loop over matches, from matches[i] on
RECURSIVE FilterFrom(_, _, _, _)
FilterFrom(matches, i, d, valid_emails) ==
    IF i > Len(matches) THEN valid_emails
    ELSE FilterFrom(matches, i + 1, d, Filtered(valid_emails, matches[i], d))

\* def _extract_emails_from_text(self, text, domain=None)
_extract_emails_from_text(t, d) ==
    IF t = <<>> THEN {}
    ELSE FilterFrom(FindAllFrom(ReplaceFrom(t, 1), 1), 1, d, {})

\* ---- the texts the pipeline is applied to ---------------------------------

ExampleText ==
    <<
        "<", "p", ">", "C", "o", "n", "t", "a", "c", "t", " ", "u", "s",
        ":", " ", "S", "A", "L", "E", "S", "@", "E", "x", "a", "m", "p",
        "l", "e", ".", "C", "O", "M", " ", "o", "r", " ", "n", "o", "r",
        "e", "p", "l", "y", "@", "e", "x", "a", "m", "p", "l", "e", ".",
        "c", "o", "m", ".", " ", "L", "o", "g", "o", ":", " ", "i", "m",
        "g", "@", "c", "d", "n", ".", "e", "x", "a", "m", "p", "l", "e",
        ".", "c", "o", "m", ".", "p", "n", "g", "<", "/", "p", ">">>

AtExample == <<"@", "e", "x", "a", "m", "p", "l", "e", ".", "c", "o", "m">>

\* "p@example.com" for every denylisted p
DenylistProbes == {p \o AtExample : p \in FAKE_EMAIL_PREFIXES}

\* candidates as they stand in page text
Fragments == {
    <<"s", "a", "l", "e", "s", "@", "e", "x", "a", "m", "p", "l", "e", ".", "c", "o", "m">>,
    <<"I", "n", "f", "o", "@", "A", "c", "m", "e", ".", "C", "O", "M">>,
    <<"i", "n", "f", "o", "@", "o", "t", "h", "e", "r", ".", "o", "r", "g">>,
    <<"n", "o", "r", "e", "p", "l", "y", "@", "e", "x", "a", "m", "p", "l", "e", ".", "c", "o", "m">>,
    <<"d", "o", "-", "n", "o", "t", "_", "r", "e", "p", "l", "y", "@", "a", "c", "m", "e", ".", "c", "o", "m">>,
    <<"m", "a", "i", "l", "e", "r", "-", "d", "a", "e", "m", "o", "n", "@", "a", "c", "m", "e", ".", "c", "o", "m">>,
    <<"r", "e", "p", "l", "y", ".", "x", "1", "2", "3", "4", "5", "@", "b", ".", "c", "o", "m">>,
    <<"a", "1", "2", "3", "4", "5", "6", "7", "8", "9", "0", "1", "2", "3", "@", "b", ".", "c", "o", "m">>,
    <<"f", "e", "e", "d", "b", "a", "c", "k", "@", "a", "c", "m", "e", ".", "c", "o", "m">>,
    <<"j", "o", "@", "l", "i", "n", "k", "e", "d", "i", "n", ".", "c", "o", "m">>,
    <<"i", "m", "g", "@", "c", "d", "n", ".", "e", "x", "a", "m", "p", "l", "e", ".", "c", "o", "m", ".", "p", "n", "g">>,
    <<"x", "3", "a", "@", "b", ".", "c", "o", "m">>,
    <<"x", "3", ".", "a", "@", "b", ".", "c", "o", "m">>,
    <<"x", "2", "@", "b", ".", "c", "o", "m">>,
    <<"x", "3", "x", "2", "a", "@", "b", ".", "c", "o", "m">>,
    <<"x", "2", "a", "@", "b", ".", "c", "o", "m">>,
    <<"x", "3", "t", "h", "e", "@", "b", ".", "c", "o", "m">>,
    <<"t", "h", "e", "@", "a", "c", "m", "e", ".", "c", "o", "m">>,
    <<"x", "\\", "n", "i", "n", "f", "o", "@", "a", "c", "m", "e", ".", "c", "o", "m">>,
    <<"a", "@", "b", ".", "c">>,
    <<"u", "0", "0", "3", "c", "i", "n", "f", "o", "@", "a", "c", "m", "e", ".", "c", "o", "m">>,
    <<"-", "a", "@", "b", ".", "c", "o", "-", "m">>}

\* ' '.join(fs)
RECURSIVE Join(_)
Join(fs) ==
    IF Len(fs) = 1 THEN fs[1]
    ELSE fs[1] \o <<" ">> \o Join(Tail(fs))

\* the texts of up to MaxChunks fragments
Assembled ==
    UNION {{Join(fs) : fs \in [1..n -> Fragments]} : n \in 1..MaxChunks}

Texts == {ExampleText} \cup DenylistProbes \cup Assembled

DomainFilters == {None, <<"a", "c", "m", "e", ".", "c", "o", "m">>, <<"e", "x", "a", "m", "p", "l", "e", ".", "c", "o", "m">>, <<"x", "3", "a">>}

FilterInit ==
    /\ EngineIdle /\ HopIdle /\ PoolIdle /\ CloseIdle /\ RegistryIdle
    /\ text \in Texts
    /\ domain \in DomainFilters
    /\ returned = <<>>

\* mutant: valid_emails kept on the extractor from one call to the next
ExtractCallRemembers ==
    /\ Len(returned) < 2
    /\ returned' = Append(returned,
           IF returned = <<>> THEN _extract_emails_from_text(text, domain)
           ELSE {})
    /\ UNCHANGED <<engineVars, text, domain, hopVars, poolVars, closeVars>>

\* a call of self._extract_emails_from_text(text, domain); the same
\* arguments are given twice
ExtractCall ==
    /\ Len(returned) < 2
    /\ returned' = Append(returned, _extract_emails_from_text(text, domain))
    /\ UNCHANGED <<engineVars, text, domain, hopVars, poolVars, closeVars>>

FilterNext == ExtractCall

FilterSpec == FilterInit /\ [][FilterNext]_vars


\* ---- close() while a batch is running --------------------------------------
\* the batch of Spec together with one call of close() on the same
\* extractor, made after stop() (the order of the 'stop' action of main.py:
\* extractor.stop(), then the cleanup that ends in extractor.close())

\* await extractor.close() is entered
ShutdownClose ==
    /\ batch = "running"
    /\ stopped
    /\ CloseStart

\* the batch with the direct context only
ShutdownInit == Init /\ ~use_proxy_fallback

\* the steps of a task, its pages holding no address: a navigation loads
\* the page or times out, and the page links to no English variant
ShutdownWorkerStep(w) ==
    \/ Acquire(w)
    \/ Gate(w)
    \/ Dispatch(w)
    \/ \E o \in {"ok", "timeout"} : Navigate(w, o, {})
    \/ English(w, "nolink", {})

\* the steps of close(), each awaited close returning normally
ShutdownNext ==
    \/ \E w \in Urls : ShutdownWorkerStep(w)
    \/ ReturnSummary
    \/ Pause
    \/ Resume
    \/ Stop
    \/ ShutdownClose
    \/ \E page \in Urls : CloseOnePage(page, "ok")
    \/ CloseContext("ok")
    \/ CloseBrowser("ok")
    \/ StopPlaywright("ok")
    \/ CloseReturn

ShutdownSpec == ShutdownInit /\ [][ShutdownNext]_vars


\* ---- the dicts returned by extract_from_url --------------------------------
\* the batch of Spec on an extractor whose context may be missing:
\* initialize() raised before new_context returned, or close() has run

ResultInit ==
    /\ HopIdle /\ PoolIdle /\ FilterIdle /\ RegistryIdle
    /\ use_proxy_fallback \in BOOLEAN
    /\ paused = FALSE
    /\ stopped = FALSE
    /\ sem = MaxConcurrency
    /\ pc = [w \in Urls |-> "start"]
    /\ attempt = [w \in Urls |-> 0]
    /\ current_context = [w \in Urls |-> "direct"]
    /\ emails = [w \in Urls |-> {}]
    /\ nav = [w \in Urls |-> "none"]
    /\ extract_failed = [w \in Urls |-> FALSE]
    /\ result = [w \in Urls |-> NoResult]
    /\ all_emails = {}
    /\ failed_urls = EmptyBag
    /\ no_email_urls = EmptyBag
    /\ completed_count = 0
    /\ progress = <<>>
    /\ batch = "running"
    /\ summary = NoResult
    /\ dispatched_at_stop = -1
    /\ total = NumUrls
    /\ _pages = {}
    /\ events = <<>>
    /\ context \in {"open", "none"}
    /\ browser = "open"
    /\ playwright_instance = "open"
    /\ pages_to_close = {}
    /\ close_pc = "idle"
    /\ close_log = {}

ResultNext == Next

ResultSpec == ResultInit /\ [][ResultNext]_vars


\* ---- the session registry of main.py ---------------------------------------
\* one connection (one session_id): the handler websocket_endpoint, which
\* takes one action at a time, the run_extraction task of each extractor
\* it started, and the cleanup_extractor calls made by either, await by
\* await.  Extractor k and its task are the ones of the k-th 'start';
\* extract_from_urls and close() are seen only through their return.

Tasks == 1..MaxStarts
Handler == 0
Callers == {Handler} \cup Tasks

offRegistryVars == <<batchVars, paused, stopped, _pages, hopVars, poolVars,
                     closeVars, filterVars>>

RegistryInit ==
    /\ EngineIdle /\ HopIdle /\ PoolIdle /\ CloseIdle /\ FilterIdle
    /\ RegistryIdle

\* task.done()
TaskDone(k) == task_pc[k] = "done"

\* task.cancel(): a task inside extract_from_urls gets CancelledError, which
\* run_extraction re-raises into its finally clause; one that is already
\* there, or awaits itself in its own cleanup, goes on with that cleanup
Cancelled(pos) == IF pos = "extract" THEN "finally" ELSE pos

\* what the handler does when its cleanup_extractor call has returned:
\* the 'start' action sleeps 1 s before it builds the extractor, the other
\* callers go back to receive_text
AfterCleanup(pos) == IF pos = "start_cleanup" THEN "start_sleep" ELSE "recv"

\* cleanup_extractor(session_id, ext) called by h, up to its first await:
\* with a task registered that is not done, task.cancel() and `await task`;
\* else the entry of a done task is deleted and extractor.close() is awaited
CleanupEnter(h, ext, tp) ==
    /\ cleanup_ext' = [cleanup_ext EXCEPT ![h] = ext]
    /\ IF active_tasks # 0 /\ ~TaskDone(active_tasks)
       THEN /\ task_pc' = [tp EXCEPT ![active_tasks] = Cancelled(@)]
            /\ cleanup_pc' = [cleanup_pc EXCEPT ![h] = "await_task"]
            /\ cleanup_wait' = [cleanup_wait EXCEPT ![h] = active_tasks]
            /\ UNCHANGED active_tasks
       ELSE /\ task_pc' = tp
            /\ active_tasks' = 0
            /\ cleanup_pc' = [cleanup_pc EXCEPT ![h] = "close"]
            /\ UNCHANGED cleanup_wait

\* cleanup_extractor returns to h: a task is done, the handler goes on
CleanupLeave(h) ==
    /\ cleanup_pc' = [cleanup_pc EXCEPT ![h] = "idle"]
    /\ cleanup_ext' = [cleanup_ext EXCEPT ![h] = 0]
    /\ cleanup_wait' = [cleanup_wait EXCEPT ![h] = 0]
    /\ IF h = Handler
       THEN /\ ws_pc' = AfterCleanup(ws_pc)
            /\ UNCHANGED task_pc
       ELSE /\ task_pc' = [task_pc EXCEPT ![h] = "done"]
            /\ UNCHANGED ws_pc

\* `await task` is over: the awaited task is done, or it is the caller
\* itself and the CancelledError of its own cancel() is caught; then
\* del active_tasks[session_id], whose KeyError (the entry is gone) ends
\* the call in its `except Exception`, and extractor.close() is awaited
CleanupTaskAwaited(h) ==
    /\ cleanup_pc[h] = "await_task"
    /\ cleanup_wait[h] = h \/ TaskDone(cleanup_wait[h])
    /\ IF active_tasks = 0
       THEN /\ CleanupLeave(h)
            /\ UNCHANGED <<active_extractors, active_tasks, created>>
       ELSE /\ active_tasks' = 0
            /\ cleanup_pc' = [cleanup_pc EXCEPT ![h] = "close"]
            /\ cleanup_wait' = [cleanup_wait EXCEPT ![h] = 0]
            /\ UNCHANGED <<active_extractors, created, ws_pc, task_pc,
                           cleanup_ext>>
    /\ UNCHANGED offRegistryVars

\* if session_id in active_extractors: del active_extractors[session_id]
Unregister(ext) == 0

\* extractor.close() has returned: the entry of the session is removed and
\* asyncio.sleep(0.5) is awaited
CleanupClosed(h) ==
    /\ cleanup_pc[h] = "close"
    /\ active_extractors' = Unregister(cleanup_ext[h])
    /\ cleanup_pc' = [cleanup_pc EXCEPT ![h] = "sleep"]
    /\ UNCHANGED <<active_tasks, created, ws_pc, task_pc, cleanup_ext,
                   cleanup_wait, offRegistryVars>>

\* asyncio.sleep(0.5) is over: cleanup_extractor returns
CleanupSlept(h) ==
    /\ cleanup_pc[h] = "sleep"
    /\ CleanupLeave(h)
    /\ UNCHANGED <<active_extractors, active_tasks, created, offRegistryVars>>

\* action 'start': with an extractor registered, cleanup_extractor on it;
\* else straight on to EmailExtractor(...) and `await initialize()`
StartAction ==
    /\ ws_pc = "recv"
    /\ created < MaxStarts
    /\ IF active_extractors # 0
       THEN /\ ws_pc' = "start_cleanup"
            /\ CleanupEnter(Handler, active_extractors, task_pc)
            /\ UNCHANGED created
       ELSE /\ ws_pc' = "init"
            /\ created' = created + 1
            /\ UNCHANGED <<active_tasks, task_pc, cleanup_pc, cleanup_ext,
                           cleanup_wait>>
    /\ UNCHANGED <<active_extractors, offRegistryVars>>

\* asyncio.sleep(1) after the cleanup is over: EmailExtractor(...) and
\* `await initialize()`
StartSlept ==
    /\ ws_pc = "start_sleep"
    /\ ws_pc' = "init"
    /\ created' = created + 1
    /\ UNCHANGED <<active_extractors, active_tasks, task_pc, cleanup_pc,
                   cleanup_ext, cleanup_wait, offRegistryVars>>

\* initialize() has returned: the extractor is registered, the task is
\* created and registered, the 'log' message is sent; or it has raised and
\* the 'error' message is being sent
Initialize(ok) ==
    /\ ws_pc = "init"
    /\ IF ok
       THEN /\ active_extractors' = created
            /\ active_tasks' = created
            /\ task_pc' = [task_pc EXCEPT ![created] = "extract"]
            /\ ws_pc' = "recv"
       ELSE /\ ws_pc' = "init_failed"
            /\ UNCHANGED <<active_extractors, active_tasks, task_pc>>
    /\ UNCHANGED <<created, cleanup_pc, cleanup_ext, cleanup_wait,
                   offRegistryVars>>

\* the 'error' message is sent: cleanup_extractor on the new extractor
InitFailed ==
    /\ ws_pc = "init_failed"
    /\ ws_pc' = "init_cleanup"
    /\ CleanupEnter(Handler, created, task_pc)
    /\ UNCHANGED <<active_extractors, created, offRegistryVars>>

\* action 'stop' with an extractor registered: stop() and cleanup_extractor
\* on it (with none registered the action does nothing)
StopAction ==
    /\ ws_pc = "recv"
    /\ active_extractors # 0
    /\ ws_pc' = "stop_cleanup"
    /\ CleanupEnter(Handler, active_extractors, task_pc)
    /\ UNCHANGED <<active_extractors, created, offRegistryVars>>

\* extract_from_urls has returned or raised in task k
ExtractionEnds(k) ==
    /\ task_pc[k] = "extract"
    /\ task_pc' = [task_pc EXCEPT ![k] = "finally"]
    /\ UNCHANGED <<active_extractors, active_tasks, created, ws_pc,
                   cleanup_pc, cleanup_ext, cleanup_wait, offRegistryVars>>

\* the finally clause of run_extraction: cleanup_extractor on the task's
\* own extractor, called from inside the task
RunExtractionFinally(k) ==
    /\ task_pc[k] = "finally"
    /\ CleanupEnter(k, k, [task_pc EXCEPT ![k] = "cleanup"])
    /\ UNCHANGED <<active_extractors, created, ws_pc, offRegistryVars>>

RegistryNext ==
    \/ StartAction
    \/ StartSlept
    \/ \E ok \in BOOLEAN : Initialize(ok)
    \/ InitFailed
    \/ StopAction
    \/ \E k \in Tasks : ExtractionEnds(k)
    \/ \E k \in Tasks : RunExtractionFinally(k)
    \/ \E h \in Callers : CleanupTaskAwaited(h)
    \/ \E h \in Callers : CleanupClosed(h)
    \/ \E h \in Callers : CleanupSlept(h)

RegistrySpec == RegistryInit /\ [][RegistryNext]_vars

\* ---- properties ----------------------------------------------------------

\* the step is one of task w (every step of a task moves it or starts its
\* next attempt)
TaskStep(w) == pc'[w] # pc[w] \/ attempt'[w] # attempt[w]

\* task w's page.goto of a primary attempt has just returned or raised
NavStep(w) == pc[w] = "nav" /\ TaskStep(w)

\* task w has just started an attempt (it passed the stop check at the head
\* of the loop and went on to new_page)
AttemptStart(w) ==
    /\ pc'[w] = "nav"
    /\ pc[w] = "log" \/ (pc[w] = "nav" /\ attempt'[w] # attempt[w])

\* number of entries of the failed_urls list b that name URL w
FailedEntries(b, w) ==
    Cardinality({e \in BagToSet(b) : e.url = w})

FailedUrlSet(b) == {e.url : e \in BagToSet(b)}

\* C1: at no instant are more than MaxConcurrency tasks between acquiring
\* and releasing the semaphore, whatever the interleaving.
C1_ConcurrencyBound ==
    Cardinality({w \in Urls : InSem(w)}) <= MaxConcurrency

\* C1 witness: the semaphore is exhausted by tasks in the middle of their
\* extraction while another task waits for a permit.
C1_Witness ==
    /\ Cardinality({w \in Urls : pc[w] \in {"nav", "english"}}) = MaxConcurrency
    /\ \E w \in Urls : pc[w] = "start"

\* C2: partial-failure isolation. When the batch has returned, a URL whose
\* last navigation raised (timeout or another exception) has exactly one
\* entry in failed_urls and none in no_email_urls, and a URL whose page
\* loaded without a challenge is not in failed_urls, has its emails in the
\* summary's emails, and is in no_email_urls exactly when it has none; if no
\* stop was requested every URL was navigated to.
C2_PartialFailureIsolation ==
    batch = "returned" =>
        /\ \A w \in Urls :
             nav[w] \in {"timeout", "error"} =>
                /\ FailedEntries(summary.failed_urls, w) = 1
                /\ \A e \in BagToSet(summary.failed_urls) :
                      e.url = w => CopiesIn(e, summary.failed_urls) = 1
                /\ ~BagIn(w, summary.no_email_urls)
        /\ \A w \in Urls :
             nav[w] = "ok" =>
                /\ w \notin FailedUrlSet(summary.failed_urls)
                /\ result[w].kind = "result"
                /\ result[w].emails \subseteq summary.emails
                /\ BagIn(w, summary.no_email_urls) <=> result[w].emails = {}
        /\ ~stopped => \A w \in Urls : nav[w] # "none"

\* C2 witness: a returned batch, never stopped, in which exactly one URL
\* failed on every attempt and all the others loaded, with and without
\* emails.
C2_Witness ==
    /\ batch = "returned" /\ ~stopped
    /\ \E a \in Urls :
         /\ nav[a] = "timeout"
         /\ FailedUrlSet(summary.failed_urls) = {a}
         /\ \A b \in Urls \ {a} : nav[b] = "ok"
         /\ \E b \in Urls \ {a} : result[b].emails # {}
         /\ \E b \in Urls \ {a} : BagIn(b, summary.no_email_urls)

\* C3: a challenge detected on the first attempt with proxy fallback enabled
\* makes the extractor go on through a new proxied context and navigate to
\* the URL again.
C3_EscalatesOnFirstChallenge ==
    [][\A w \in Urls :
          (NavStep(w) /\ attempt[w] = 0 /\ use_proxy_fallback
              /\ nav'[w] = "captcha")
          => (current_context'[w] = "proxy" /\ pc'[w] = "nav")]_vars

\* C4: a navigation timeout on an attempt that is not the last one leads to
\* the next iteration of the attempt loop on the same URL (which starts the
\* next attempt, or returns the user-stopped failure if stop was requested);
\* a timeout on the last attempt ends the call with success = false and the
\* timeout error.
C4_TimeoutRetry ==
    [][\A w \in Urls :
          (NavStep(w) /\ nav'[w] = "timeout") =>
             IF attempt[w] < MaxAttempts - 1
             THEN IF stopped
                  THEN result'[w] = MakeResult({}, FALSE, UserStopped)
                  ELSE /\ pc'[w] = "nav"
                       /\ attempt'[w] = attempt[w] + 1
                       /\ result'[w] = NoResult
             ELSE /\ pc'[w] = "done"
                  /\ result'[w] = MakeResult({}, FALSE, NavTimeout)]_vars

\* C4 witness: one URL is in its second attempt after a timeout and another
\* has ended with the timeout error.
C4_Witness ==
    \E w, v \in Urls :
        /\ pc[w] = "nav" /\ attempt[w] = 1 /\ nav[w] = "timeout"
        /\ result[v].kind = "result" /\ result[v].error = NavTimeout

\* C5: a task that reaches its dispatch check while stopped is set skips its
\* URL: extract_from_url is not called for it, the aggregates and the
\* progress events are left alone; no skipped URL has an entry in the
\* aggregates, and there is one progress event per URL handed to the
\* extractor and finished.
C5_StoppedSkipsUrl ==
    [][/\ \A w \in Urls :
            (stopped /\ pc[w] \in {"start", "gate"} /\ TaskStep(w)) =>
               /\ pc'[w] = "done"
               /\ result'[w] = Skipped
               /\ ~Dispatched(w)'
               /\ UNCHANGED aggVars
       /\ \A w \in Urls :
            result'[w] = Skipped =>
               /\ w \notin FailedUrlSet(failed_urls')
               /\ ~BagIn(w, no_email_urls')
       /\ Len(progress') =
            Cardinality({w \in Urls : result'[w] \notin {NoResult, Skipped}})]_vars

\* C5 witness: a returned batch with a skipped URL beside a processed one.
C5_Witness ==
    /\ batch = "returned"
    /\ \E w, v \in Urls :
         /\ result[w] = Skipped
         /\ result[v] \notin {NoResult, Skipped}

\* C6 as claimed: once stop() has been called, no task starts an attempt and
\* no task navigates.
C6_NoNavigationAfterStop ==
    [][stopped => \A w \in Urls : ~AttemptStart(w) /\ ~NavStep(w)]_vars

\* C6 amended: once stop() has been called no task starts an attempt: an
\* invocation that comes to the head of its attempt loop returns the
\* user-stopped failure; the navigation of an attempt that had passed the
\* stop check before the call is still made.
C6_NoAttemptAfterStop ==
    [][stopped =>
         \A w \in Urls :
            /\ ~AttemptStart(w)
            /\ (pc[w] = "log" /\ TaskStep(w))
                 => result'[w] = MakeResult({}, FALSE, UserStopped)
            /\ (NavStep(w) /\ nav'[w] = "timeout" /\ attempt[w] < MaxAttempts - 1)
                 => result'[w] = MakeResult({}, FALSE, UserStopped)]_vars

\* C6 witness: an invocation whose first attempt timed out and whose retry
\* was cut short by stop().
C6_Witness ==
    \E w \in Urls :
        /\ stopped
        /\ nav[w] = "timeout"
        /\ result[w] = MakeResult({}, FALSE, UserStopped)

\* C7: when stop() was called during the batch, the summary's
\* total_processed is at most the number of URLs that had been handed to
\* the single-URL extractor when stop() was called.
C7_StopImmediacy ==
    (batch = "returned" /\ stopped) =>
        summary.total_processed <= dispatched_at_stop

\* C8: while paused is set and stop has not been requested, no task begins
\* the single-URL extraction of a URL.
C8_PauseGatesDispatch ==
    [][(paused /\ ~stopped) =>
          \A w \in Urls : Dispatched(w)' => Dispatched(w)]_vars

C10_PauseResumeFrame ==
    /\ [][/\ paused' # paused =>
               /\ UNCHANGED <<aggVars, sem, pc, locVars, result, batch, summary>>
               /\ stopped' # stopped => (stopped' /\ ~paused')
          /\ \A w \in Urls :
               (paused /\ ~stopped /\ NavStep(w) /\ attempt[w] = 0
                   /\ nav'[w] = "timeout")
               => (pc'[w] = "nav" /\ attempt'[w] = 1)]_vars
    /\ [](\A w \in Urls :
             (paused /\ pc[w] \in {"nav", "english"}) => ENABLED RunStep(w))

\* C10 witness: paused is set while an invocation is in its second attempt.
C10_Witness ==
    /\ paused /\ ~stopped
    /\ \E w \in Urls : pc[w] = "nav" /\ attempt[w] = 1

\* C11: a call whose page loaded without a challenge returns success = true
\* with no error, whether or not an address was found; in the batch such a
\* URL is in no_email_urls exactly when its count is 0 and never in
\* failed_urls, while a URL whose last navigation raised is once in
\* failed_urls and not in no_email_urls.
C11_EmptyIsSuccess ==
    \A w \in Urls :
        result[w].kind = "result" =>
            /\ nav[w] = "ok" =>
                 /\ result[w].success
                 /\ result[w].error = NoError
                 /\ result[w].count = Cardinality(result[w].emails)
                 /\ w \notin FailedUrlSet(failed_urls)
                 /\ BagIn(w, no_email_urls) <=> result[w].count = 0
                 /\ CopiesIn(w, no_email_urls) <= 1
            /\ nav[w] \in {"timeout", "error"} =>
                 /\ ~result[w].success
                 /\ FailedEntries(failed_urls, w) = 1
                 /\ ~BagIn(w, no_email_urls)

\* C11 witness: one URL loaded and gave no address (listed in
\* no_email_urls), another loaded and gave one, a third timed out on its
\* last attempt (listed in failed_urls).
C11_Witness ==
    \E a, b, c \in Urls :
        /\ nav[a] = "ok" /\ result[a] = MakeResult({}, TRUE, NoError)
        /\ BagIn(a, no_email_urls)
        /\ nav[b] = "ok" /\ result[b].kind = "result" /\ result[b].count > 0
        /\ result[c] = MakeResult({}, FALSE, NavTimeout)
        /\ c \in FailedUrlSet(failed_urls)

\* C12: a challenge indicator found on an attempt other than the first, or
\* on any attempt while proxy fallback is off, ends the call in that very
\* step with success = false, no emails and the bot-challenge error (filed
\* in failed_urls): no extraction, no English hop, no further attempt.
C12_ChallengeIsTerminal ==
    [][\A w \in Urls :
          (NavStep(w) /\ nav'[w] = "captcha"
              /\ (attempt[w] > 0 \/ ~use_proxy_fallback))
          => /\ pc'[w] = "done"
             /\ result'[w] = MakeResult({}, FALSE, BotChallenge)
             /\ [url |-> w, error |-> BotChallenge] \in BagToSet(failed_urls')
             /\ all_emails' = all_emails
             /\ no_email_urls' = no_email_urls]_vars

\* C12 witness: with proxy fallback on, a call ended with the bot-challenge
\* error (so the challenge came on its second attempt).
C12_Witness ==
    /\ use_proxy_fallback
    /\ \E w \in Urls :
         /\ nav[w] = "captcha"
         /\ result[w] = MakeResult({}, FALSE, BotChallenge)

C14_RendererErrorFails ==
    [][\A w \in Urls :
          (pc[w] # "done" /\ pc'[w] = "done"
              /\ (nav'[w] = "error" \/ extract_failed[w]))
          => /\ result'[w] = MakeResult({}, FALSE, RendererError)
             /\ w \in FailedUrlSet(failed_urls')]_vars

\* every page a call has opened is closed and out of _pages once the call
\* is between two attempts or has returned
PageHeld(w) == pc[w] \in {"english", "hopfailed"}

\* C15: every way out of an attempt releases its page: a call that has
\* returned (with a result of any kind) or that is between two attempts
\* has no page left in _pages; only a call that is still working on its
\* loaded page has one.
C15_PagesReleased ==
    /\ _pages \subseteq {w \in Urls : PageHeld(w)}
    /\ \A w \in Urls : pc[w] = "done" => w \notin _pages

\* C15 witness: one call has returned a success and one the user-stopped
\* failure after the timeout of its first attempt (each had opened a page),
\* while a third still holds the page it is working on.
C15_Witness ==
    \E a, b, d \in Urls :
        /\ d \in _pages
        /\ nav[a] = "ok" /\ result[a].kind = "result" /\ result[a].success
        /\ nav[b] = "timeout" /\ result[b] = MakeResult({}, FALSE, UserStopped)
        /\ {a, b} \cap _pages = {}

\* C16: when extract_from_urls has returned, every input URL has exactly one
\* disposition in the summary: an entry in failed_urls, or an entry in
\* no_email_urls, or a successful extraction whose emails (one at least)
\* are in the summary; also when stop() was called.
C16_EveryUrlAccounted ==
    batch = "returned" =>
        \A w \in Urls :
            LET failed == FailedEntries(summary.failed_urls, w) = 1
                empty == BagIn(w, summary.no_email_urls)
                found == /\ result[w].kind = "result"
                         /\ result[w].success
                         /\ result[w].count > 0
                         /\ result[w].emails \subseteq summary.emails
            IN /\ failed \/ empty \/ found
               /\ ~(failed /\ empty) /\ ~(failed /\ found) /\ ~(empty /\ found)

\* C17: the progress events of a batch are one per finished extraction, the
\* i-th being the integer part of 100 * i / total, so every value is in
\* 0..100 and completed_count is at most total.
C17_ProgressIsIntegerPart ==
    /\ completed_count <= total
    /\ Len(progress) = completed_count
    /\ \A i \in 1..Len(progress) :
          /\ progress[i] = (100 * i) \div total
          /\ progress[i] \in 0..100

\* the emails of every result a single-URL extraction has returned
ReturnedEmails ==
    UNION {result[w].emails : w \in {v \in Urls : result[v].kind = "result"}}

\* C18: no update of the shared aggregates is lost: when extract_from_urls
\* has returned, the summary's emails are the union of the emails of every
\* returned result, failed_urls has one entry (the URL and its error) per
\* failed result and nothing else, no_email_urls one entry per successful
\* result without emails and nothing else.
C18_NoLostUpdate ==
    batch = "returned" =>
        /\ summary.emails = ReturnedEmails
        /\ summary.total_emails = Cardinality(ReturnedEmails)
        /\ summary.failed_urls =
             SetToBag({[url |-> w, error |-> result[w].error] :
                         w \in {v \in Urls : result[v].kind = "result"
                                              /\ ~result[v].success}})
        /\ summary.no_email_urls =
             SetToBag({w \in Urls : result[w].kind = "result"
                                     /\ result[w].success
                                     /\ result[w].count = 0})

\* C18 witness: a returned batch whose extractions overlapped in time (more
\* than one permit) with an email found, a failure and an empty page.
C18_Witness ==
    /\ batch = "returned"
    /\ MaxConcurrency > 1
    /\ summary.emails # {}
    /\ summary.failed_urls # EmptyBag
    /\ summary.no_email_urls # EmptyBag

\* C19: batch-end events come in the order failed_urls, no_email_urls,
\* complete, each once; every progress event comes before the first of
\* them, and once complete is sent no task takes a step (no progress event
\* and no email event).
C19_EventOrder ==
    /\ [](\E n \in 0..3 :
             events = SubSeq(<<"failed_urls", "no_email_urls", "complete">>, 1, n))
    /\ [][/\ progress' # progress => (events = <<>> /\ events' = <<>>)
          /\ events # <<>> =>
                \A w \in Urls : ~TaskStep(w) /\ emails'[w] = emails[w]]_vars

\* C19 witness: a batch that sent its progress events and then the three
\* batch-end events.
C19_Witness ==
    /\ events = <<"failed_urls", "no_email_urls", "complete">>
    /\ Len(progress) = NumUrls

\* C20: a secondary hop that fails leaves the call successful with every
\* email of the primary page in its result, and no step of the hop takes an
\* email away: what the call returns contains what it had before the hop.
C20_HopFailureNonFatal ==
    [][\A w \in Urls :
          /\ (pc[w] = "hopfailed" /\ TaskStep(w)) =>
                /\ result'[w].success
                /\ result'[w].error = NoError
                /\ result'[w].emails = emails[w]
                /\ emails[w] \subseteq all_emails'
          /\ (pc[w] = "english" /\ TaskStep(w)) =>
                IF pc'[w] = "hopfailed"
                THEN emails'[w] = emails[w] /\ result'[w] = NoResult
                ELSE /\ result'[w].success
                     /\ emails[w] \subseteq result'[w].emails]_vars

\* C20 witness: the secondary hop of a call that had found an email on its
\* primary page has failed.
C20_Witness ==
    \E w \in Urls : pc[w] = "hopfailed" /\ emails[w] # {}

\* C21 as stated: within one attempt at most one English navigation is made,
\* and none when the found link is already in visited_urls, when the
\* requested URL contains '/en/', or when stopped is set.  (Violated: the
\* flag is read before the lookup, a stop() that arrives during the lookup
\* or the announcing callback is followed by the navigation.)
C21_NoHopWhenStopped ==
    [][hops' > hops =>
         /\ hops = 0
         /\ english_url \notin visited_urls
         /\ ~Contains(url, EnSegment)
         /\ ~stopped]_vars

\* C21 amended: within one attempt at most one English navigation is made,
\* and none when no link was found, when the found link is already in
\* visited_urls, when the requested URL contains '/en/', or when stopped is
\* set at the check of line 441 that precedes the lookup.
C21_GuardedHop ==
    [][/\ hops' > hops =>
            /\ hops = 0
            /\ english_url # None
            /\ english_url \notin visited_urls
            /\ ~Contains(url, EnSegment)
       /\ (hop_pc = "check" /\ stopped /\ hop_pc' # hop_pc) => hop_pc' = "done"
       /\ hop_pc = "done" => hops' = hops]_vars

\* C21 witness: an attempt whose English navigation was made and loaded
C21_Witness ==
    /\ hop_pc = "done"
    /\ hops = 1
    /\ english_url \in visited_urls
    /\ english_url # url
    /\ ~stopped

\* C22 as stated: for every positive PAGE_TIMEOUT value T the timeout of the
\* English navigation is strictly shorter than T.  (Violated for T <= 10000.)
C22_EnglishTimeoutShorter ==
    hops > 0 => english_timeout < page_timeout

\* C22 amended: the timeout of the English navigation is half of T rounded
\* down, but never less than 10000 ms; it is strictly shorter than T for
\* every T above 10000 ms.
C22_EnglishTimeoutHalved ==
    hops > 0 =>
        /\ english_timeout >= 10000
        /\ page_timeout > 10000 => english_timeout < page_timeout
        /\ page_timeout >= 20000 =>
               /\ 2 * english_timeout <= page_timeout
               /\ page_timeout < 2 * english_timeout + 2
        /\ page_timeout < 20000 => english_timeout = 10000

\* C22 witness: an English navigation made under an odd PAGE_TIMEOUT above
\* twice the floor
C22_Witness ==
    /\ hops = 1
    /\ page_timeout = 20001
    /\ english_timeout = 10000

\* C23: after any sequence of mark_proxy_failed, reset_failed_proxies and
\* selection calls on an enabled pool, get_random_proxy and get_next_proxy
\* return a member of the fixed pool whose server is not in the failed set
\* at the time of return.
C23_SelectionAvoidsFailed ==
    [][(use_proxy /\ (get_next_proxy \/ get_random_proxy)) =>
         /\ proxy' \in PoolMembers
         /\ proxy'.server \notin failed_proxies']_vars

\* C23 witness: a selection made while another endpoint and an address
\* outside the pool were marked failed
C23_Witness ==
    /\ use_proxy
    /\ proxy \in PoolMembers
    /\ failed_proxies \cap {FREE_PROXIES[i].server : i \in 1..NumProxies} # {}
    /\ 0 \in failed_proxies
    /\ proxy.server \notin failed_proxies
    /\ current_index > 0

\* C24: when every endpoint of the pool is marked failed, a selection call
\* clears the failed set and returns an endpoint in the same step; an enabled
\* pool never returns None; a selection call leaves the failed set as it is
\* in every other case.
C24_SelfHealing ==
    [][(use_proxy /\ (get_next_proxy \/ get_random_proxy)) =>
         /\ proxy' \in PoolMembers
         /\ IF \A p \in PoolMembers : p.server \in failed_proxies
            THEN failed_proxies' = {}
            ELSE failed_proxies' = failed_proxies]_vars

\* C24 witness: a selection call found every endpoint failed, cleared the
\* set and returned an endpoint
C24_Witness ==
    /\ use_proxy
    /\ healed
    /\ failed_proxies = {}
    /\ proxy \in PoolMembers

\* C25: close() always completes: whichever of the page, context, browser or
\* renderer close steps raises or times out, close() does not raise, goes on
\* to every later step, and returns with no tracked pages and with context,
\* browser and playwright_instance all None.
C25_CloseCompletes ==
    /\ close_pc \in {"idle", "pages", "context", "browser", "playwright",
                     "sleep", "done"}
    /\ close_pc \notin {"idle", "done"} => ENABLED CloseNext
    /\ close_pc \in {"sleep", "done"} =>
           /\ _pages = {}
           /\ context = "none"
           /\ browser = "none"
           /\ playwright_instance = "none"
           /\ ~stopped /\ ~paused

\* C25 witness: close() returned after the close of a page raised, the
\* close of the context timed out and the stop of the renderer raised
C25_Witness ==
    /\ close_pc = "done"
    /\ <<"page", "raise">> \in close_log
    /\ <<"context", "timeout">> \in close_log
    /\ <<"playwright", "raise">> \in close_log
    /\ _pages = {}
    /\ context = "none"
    /\ playwright_instance = "none"

\* C26: _extract_emails_from_text applied to the text "<p>Contact us:
\* SALES@Example.COM or noreply@example.com. Logo: img@cdn.example.com.png</p>"
\* returns exactly {"sales@example.com"}: the address is lower-cased, the
\* reply-bounce address and the candidate ending in .png are rejected.
C26_EndToEndExample ==
    \A k \in 1..Len(returned) :
        (text = ExampleText /\ domain = None) =>
            returned[k] = {<<"s", "a", "l", "e", "s", "@", "e", "x", "a", "m", "p", "l", "e", ".", "c", "o", "m">>}

\* C26 witness: the call on the example text has returned the address
C26_Witness ==
    /\ text = ExampleText
    /\ domain = None
    /\ Len(returned) = 1
    /\ <<"s", "a", "l", "e", "s", "@", "e", "x", "a", "m", "p", "l", "e", ".", "c", "o", "m">> \in returned[1]

\* C27: for every local part p of FAKE_EMAIL_PREFIXES the result of
\* extracting from "p@example.com" does not contain p@example.com; no address
\* of any result has a denylisted local part; a lower-case candidate whose
\* local part is not denylisted and that trips no other rule is in the result.
C27_DenylistExclusion ==
    \A k \in 1..Len(returned) :
        /\ \A p \in FAKE_EMAIL_PREFIXES :
               text = p \o AtExample => (p \o AtExample) \notin returned[k]
        /\ \A e \in returned[k] : LocalPart(e) \notin FAKE_EMAIL_PREFIXES
        /\ ( /\ FullMatch(text)
             /\ Lower(text) = text
             /\ StripJunk(text) = text
             /\ ~\E x \in ResourceExtensions : EndsWith(text, x)
             /\ ~IsReplyBounce(text)
             /\ ~HasDigitRun(text, 13)
             /\ ~HasSpamKeyword(text)
             /\ LocalPart(text) \notin FAKE_EMAIL_PREFIXES
             /\ domain # None => Contains(text, domain) )
           => text \in returned[k]

\* C27 witness: the call on "firstname.lastname@example.com" returned the
\* empty set
C27_Witness ==
    /\ text = <<"f", "i", "r", "s", "t", "n", "a", "m", "e", ".", "l", "a", "s", "t", "n", "a", "m", "e">> \o AtExample
    /\ <<"f", "i", "r", "s", "t", "n", "a", "m", "e", ".", "l", "a", "s", "t", "n", "a", "m", "e">> \in FAKE_EMAIL_PREFIXES
    /\ Len(returned) = 1
    /\ returned[1] = {}

\* C28 as stated: for every text and every non-empty domain filter d, every
\* address returned by _extract_emails_from_text(text, d) contains d, also
\* when a junk prefix was stripped from it after the filter check.
\* (Violated: the test is made on the candidate before the strip.)
C28_DomainFilter ==
    \A k \in 1..Len(returned) :
        domain # None => \A e \in returned[k] : Contains(e, domain)

\* C29 as stated: every returned string matches the address grammar in
\* full, is lower-cased and breaks none of the rules on resource extensions,
\* reply-bounce names, digit runs, spam keywords and fake prefixes; a
\* candidate whose junk prefix was stripped is accepted only if what is left
\* is itself a complete match.  (Violated: what is left is only searched for
\* a match.)
C29_ResultsMatchGrammar ==
    \A k \in 1..Len(returned) :
        \A e \in returned[k] :
            /\ FullMatch(e)
            /\ Lower(e) = e
            /\ ~\E x \in ResourceExtensions : EndsWith(e, x)
            /\ ~IsReplyBounce(e)
            /\ ~HasDigitRun(e, 13)
            /\ ~HasSpamKeyword(e)
            /\ LocalPart(e) \notin FAKE_EMAIL_PREFIXES

C31_ChallengeNeverSuccessful ==
    \A w \in Urls :
        (nav[w] = "captcha" /\ result[w].kind = "result")
        => /\ ~result[w].success
           /\ w \in FailedUrlSet(failed_urls)
           /\ ~BagIn(w, no_email_urls)

\* C32: once stop() has been called while a batch is running, the stopped
\* flag stays set until extract_from_urls returns, whatever pause(),
\* resume() and close() do in between, and no task that is still waiting
\* at the semaphore or in the pause loop goes on to dispatch its URL.
C32_StopFlagHeld ==
    [][/\ (stopped /\ batch = "running") => stopped'
       /\ (dispatched_at_stop # -1 /\ batch = "running")
          => \A w \in Urls :
                 pc[w] \in {"start", "gate"} => pc'[w] \notin {"log"}]_vars

\* C34: every dict returned by extract_from_url has error = None exactly
\* when success is true, and its count is the number of entries of its
\* emails.
C34_ResultConsistent ==
    \A w \in Urls :
        result[w].kind = "result"
        => /\ (result[w].error = NoError) <=> result[w].success
           /\ result[w].count = Cardinality(result[w].emails)

\* C34 witness: a call that went on after a swallowed challenge (its
\* error_message set) returned success with one address and no error, and
\* another call returned the timeout failure with no address.
C34_Witness ==
    \E a, b \in Urls :
        /\ nav[a] = "captcha"
        /\ result[a] = MakeResult({"e1"}, TRUE, NoError)
        /\ result[b] = MakeResult({}, FALSE, NavTimeout)

\* C35: after any sequence of mark_proxy_failed (with any server string),
\* reset_failed_proxies and selection calls, get_stats reports
\* failed + available = total with 0 <= available <= total, and, the pool
\* being in use, available is the number of pool endpoints that a selection
\* may return.
C35_StatsConsistent ==
    /\ get_stats.failed + get_stats.available = get_stats.total
    /\ 0 <= get_stats.available
    /\ get_stats.available <= get_stats.total
    /\ use_proxy => get_stats.available = Cardinality(Selectable)

\* C33: while a task is inside extract_from_urls, the extractor registered
\* for the session is the one that task runs on (so pause, resume and stop
\* reach it), and a cleanup_extractor call never removes the registration
\* of an extractor created after the one it was called for.
C33_RegistryTracksTask ==
    /\ [](\A k \in Tasks : task_pc[k] = "extract" => active_extractors = k)
    /\ [][\A h \in Callers :
             (cleanup_pc[h] = "close" /\ cleanup_pc'[h] = "sleep"
                 /\ active_extractors # 0 /\ active_extractors' = 0)
             => active_extractors <= cleanup_ext[h]]_vars

====
